---- MODULE Spec2Model ----
(***************************************************************************)
(* A model of the adaptive algorithm-selection core of the forecast bot:   *)
(* PredictorModel (performance bookkeeping, forecast with cache, load and  *)
(* save), AlgorithmSwitcher (switch decision, trends, switch history),     *)
(* verify_prediction and the polling cycle of check_lottery_update.        *)
(*                                                                         *)
(* Numbers.  The program computes rates and confidence in floating point;  *)
(* the model computes them as exact rationals <<n, d>> (d > 0, lowest      *)
(* terms).  The clamp of calculate_confidence_score and the comparisons of *)
(* the switch rules are applied to those rationals.                        *)
(***************************************************************************)
EXTENDS Integers, Sequences, FiniteSets, TLC

(***************************************************************************)
(* Bounds of the model.                                                    *)
(***************************************************************************)
\* record calls fed to one PerformanceRecord in SpecRecord
MaxRecords == 25
\* lottery periods that arrive in Spec
MaxQihao == 1
\* uncached forecast computations in Spec, over all categories
MaxForecasts == 1
\* outcomes of the rarer kind (correct or wrong) in one such stream
MaxMinority == 1
\* length up to which such a stream is arbitrary
MaxFreeRecords == 8
\* largest current_algorithm that a stored snapshot holds in SpecLoad
MaxStoredId == 4
\* lottery periods that arrive in one behaviour of SpecPipeline
MaxPeriods == 5
\* periods of SpecPipeline in which the periodic verification job runs, and
\* its runs in each of them
MaxPeriodicVerifies == 1

(***************************************************************************)
(* Program constants.                                                      *)
(***************************************************************************)
\* switch_config['max_recent_results']
MaxRecentResults == 20
\* update_algorithm_trends keeps the last 20 trend values
MaxTrendValues == 20
\* switch_config['min_predictions_before_switch']
MinPredictionsBeforeSwitch == 5
\* switch_config['max_consecutive_errors']
MaxConsecutiveErrors == 3
\* switch_config['exploration_threshold']
ExplorationThreshold == 10
\* calculate_prediction re-arms the forced exploration every 100 checks
ForcedExplorationResetChecks == 100
\* verify_prediction reads the algorithm of a predictions row in column 5
VerifyAlgorithmColumn == 5

Categories == {"single_double", "big_small", "kill_group", "double_group"}
\* the state strings of the Q-table that the model distinguishes
LearnerStates == {"s", "t"}
Algorithms == {1, 2, 3}

(***************************************************************************)
(* Exact rationals.                                                        *)
(***************************************************************************)
RECURSIVE GCD(_, _)
GCD(a, b) == IF b = 0 THEN a ELSE GCD(b, a % b)

Abs(x) == IF x < 0 THEN -x ELSE x

\* n/d in lowest terms, d > 0
Rat(n, d) ==
    LET g == GCD(Abs(n), d)
    IN  IF n = 0 THEN <<0, 1>> ELSE <<n \div g, d \div g>>

RAdd(a, b) == Rat(a[1] * b[2] + b[1] * a[2], a[2] * b[2])
RSub(a, b) == Rat(a[1] * b[2] - b[1] * a[2], a[2] * b[2])
RMul(a, b) == Rat(a[1] * b[1], a[2] * b[2])
RLess(a, b) == a[1] * b[2] < b[1] * a[2]
RLeq(a, b) == a[1] * b[2] <= b[1] * a[2]
RMin(a, b) == IF RLess(b, a) THEN b ELSE a
RMax(a, b) == IF RLess(a, b) THEN b ELSE a

Half == Rat(1, 2)

RECURSIVE SumSeq(_)
SumSeq(s) == IF s = <<>> THEN 0 ELSE Head(s) + SumSeq(Tail(s))

(***************************************************************************)
(* PerformanceRecord: PredictorModel.__init__ and the record operation.    *)
(***************************************************************************)
DefaultPerf ==
    [ total_predictions   |-> 0,
      correct_predictions |-> 0,
      recent_results      |-> <<>>,
      consecutive_correct |-> 0,
      consecutive_wrong   |-> 0,
      last_switch_time    |-> 0,
      success_rate        |-> Half,
      recent_success_rate |-> Half,
      confidence_score    |-> Half ]

\* the sum before the clamp of calculate_confidence_score
RawConfidence(perf) ==
    LET base_confidence ==
            RAdd(RMul(perf.success_rate, Rat(4, 10)),
                 RMul(perf.recent_success_rate, Rat(6, 10)))
        correct_bonus == RMin(Rat(perf.consecutive_correct * 5, 100), Rat(2, 10))
        wrong_penalty == RMin(Rat(perf.consecutive_wrong, 10), Rat(3, 10))
        experience_factor ==
            RMul(RMin(Rat(perf.total_predictions, 50), Rat(1, 1)), Rat(1, 10))
    IN  RAdd(RSub(RAdd(base_confidence, correct_bonus), wrong_penalty),
             experience_factor)

MutConfidenceNoClamp(perf) == RawConfidence(perf)

\* calculate_confidence_score: max(0.1, min(0.95, confidence))
CalculateConfidenceScore(perf) ==
    RMax(Rat(1, 10), RMin(Rat(95, 100), RawConfidence(perf)))

MutCountersNoReset(perf, is_correct) ==
    [ consecutive_correct |-> IF is_correct THEN perf.consecutive_correct + 1
                              ELSE perf.consecutive_correct,
      consecutive_wrong   |-> IF is_correct THEN 0
                              ELSE perf.consecutive_wrong + 1 ]

\* the consecutive counters after one outcome
NextCounters(perf, is_correct) ==
    [ consecutive_correct |-> IF is_correct THEN perf.consecutive_correct + 1 ELSE 0,
      consecutive_wrong   |-> IF is_correct THEN 0 ELSE perf.consecutive_wrong + 1 ]

MutWindowNoEvict(results, bit) == Append(results, bit)

MutWindowEvictNewest(results, bit) ==
    IF Len(results) + 1 > MaxRecentResults THEN results ELSE Append(results, bit)

\* recent_results.append(bit); pop(0) when longer than max_recent_results
PushRecent(results, bit) ==
    LET appended == Append(results, bit)
    IN  IF Len(appended) > MaxRecentResults THEN Tail(appended) ELSE appended

MutUpdatePerfWindowedRate(perf, is_correct) ==
    LET counters == NextCounters(perf, is_correct)
        total    == perf.total_predictions + 1
        correct  == perf.correct_predictions + (IF is_correct THEN 1 ELSE 0)
        recent   == PushRecent(perf.recent_results, IF is_correct THEN 1 ELSE 0)
        rates    == [ perf EXCEPT
                        !.total_predictions   = total,
                        !.correct_predictions = correct,
                        !.consecutive_correct = counters.consecutive_correct,
                        !.consecutive_wrong   = counters.consecutive_wrong,
                        !.recent_results      = recent,
                        !.success_rate        = Rat(SumSeq(recent), Len(recent)),
                        !.recent_success_rate =
                            IF Len(recent) > 0 THEN Rat(SumSeq(recent), Len(recent))
                            ELSE Half ]
    IN  [ rates EXCEPT !.confidence_score = CalculateConfidenceScore(rates) ]

\* update_algorithm_performance, the part that rewrites the record
UpdatePerf(perf, is_correct) ==
    LET counters == NextCounters(perf, is_correct)
        total    == perf.total_predictions + 1
        correct  == perf.correct_predictions + (IF is_correct THEN 1 ELSE 0)
        recent   == PushRecent(perf.recent_results, IF is_correct THEN 1 ELSE 0)
        rates    == [ perf EXCEPT
                        !.total_predictions   = total,
                        !.correct_predictions = correct,
                        !.consecutive_correct = counters.consecutive_correct,
                        !.consecutive_wrong   = counters.consecutive_wrong,
                        !.recent_results      = recent,
                        !.success_rate        = Rat(correct, total),
                        !.recent_success_rate =
                            IF Len(recent) > 0 THEN Rat(SumSeq(recent), Len(recent))
                            ELSE Half ]
    IN  [ rates EXCEPT !.confidence_score = CalculateConfidenceScore(rates) ]

\* update_algorithm_trends: append, keep the last 20
PushTrend(trend, value) ==
    LET appended == Append(trend, value)
    IN  IF Len(appended) > MaxTrendValues THEN Tail(appended) ELSE appended

(***************************************************************************)
(* AlgorithmSwitcher: the rule-based switch decision.                      *)
(* Reasons are the program's reason strings, written in ASCII:             *)
(*   insufficient_data  = "数据不足"                                        *)
(*   consecutive_wrong  = "连续错误次数过多: {n}次"   (count = n)            *)
(*   low_confidence     = "置信度过低: {v:.2f}"       (value = v)            *)
(*   low_recent_success = "最近成功率低: {v:.2%}"     (value = v)            *)
(*   declining          = "性能持续下降"                                     *)
(*   exploration        = "算法探索"                                        *)
(*   nominal            = "算法运行正常"                                     *)
(* count is 0 and value is 0/1 in a reason that carries none.              *)
(***************************************************************************)
NoValue == <<0, 1>>

Reason(text, count, value) == [text |-> text, count |-> count, value |-> value]

\* perf_data.get(a, {}).get('confidence_score', 0)
ConfidenceOf(perf_data, a) ==
    IF a \in DOMAIN perf_data THEN perf_data[a].confidence_score ELSE <<0, 1>>

\* [algo for algo in [1, 2, 3] if algo != current_algo]
OtherAlgos(current_algo) == SelectSeq(<<1, 2, 3>>, LAMBDA a : a # current_algo)

MutSelectKeepsCurrent(current_algo, perf_data) == current_algo

MutSelectFirstOther(current_algo, perf_data) == OtherAlgos(current_algo)[1]

\* _select_next_algorithm: the other algorithms sorted by confidence_score,
\* descending and stable (equal scores keep ascending id order); the first
SelectNextAlgorithm(current_algo, perf_data) ==
    LET others == OtherAlgos(current_algo)
        best == CHOOSE i \in 1..Len(others) :
                    /\ \A j \in 1..Len(others) :
                          RLeq(ConfidenceOf(perf_data, others[j]),
                               ConfidenceOf(perf_data, others[i]))
                    /\ \A j \in 1..(i - 1) :
                          RLess(ConfidenceOf(perf_data, others[j]),
                                ConfidenceOf(perf_data, others[i]))
    IN  others[best]

\* all(trend[i] < trend[i-1] for i in range(1, len(trend)))
StrictlyDeclining(trend) ==
    \A i \in 2..Len(trend) : RLess(trend[i], trend[i - 1])

\* current_perf.get(field, default) on perf_data.get(current_algo, {})
CurrentField(perf_data, current_algo, field, default) ==
    IF current_algo \in DOMAIN perf_data THEN perf_data[current_algo][field]
    ELSE default

MutShouldSwitchNoDataGuard(current_algo, perf_data, trend, force, draw_below) ==
    LET consecutive_wrong == CurrentField(perf_data, current_algo, "consecutive_wrong", 0)
    IN  IF consecutive_wrong >= MaxConsecutiveErrors
        THEN [ algo   |-> SelectNextAlgorithm(current_algo, perf_data),
               reason |-> Reason("consecutive_wrong", consecutive_wrong, NoValue) ]
        ELSE [ algo |-> current_algo, reason |-> Reason("nominal", 0, NoValue) ]

MutShouldSwitchExploresEarly(current_algo, perf_data, trend, force, draw_below) ==
    LET total == CurrentField(perf_data, current_algo, "total_predictions", 0)
        consecutive_wrong == CurrentField(perf_data, current_algo, "consecutive_wrong", 0)
        confidence_score == CurrentField(perf_data, current_algo, "confidence_score", Half)
        recent_success_rate ==
            CurrentField(perf_data, current_algo, "recent_success_rate", Half)
        next_algo == SelectNextAlgorithm(current_algo, perf_data)
    IN  IF total < MinPredictionsBeforeSwitch
        THEN [ algo |-> current_algo,
               reason |-> Reason("insufficient_data", 0, NoValue) ]
        ELSE IF consecutive_wrong >= MaxConsecutiveErrors
        THEN [ algo |-> next_algo,
               reason |-> Reason("consecutive_wrong", consecutive_wrong, NoValue) ]
        ELSE IF RLess(confidence_score, Rat(4, 10))
        THEN [ algo |-> next_algo,
               reason |-> Reason("low_confidence", 0, confidence_score) ]
        ELSE IF RLess(recent_success_rate, Rat(4, 10))
        THEN [ algo |-> next_algo,
               reason |-> Reason("low_recent_success", 0, recent_success_rate) ]
        ELSE IF Len(trend) >= 3 /\ StrictlyDeclining(trend)
        THEN [ algo |-> next_algo, reason |-> Reason("declining", 0, NoValue) ]
        ELSE IF force \/ draw_below
        THEN [ algo |-> next_algo, reason |-> Reason("exploration", 0, NoValue) ]
        ELSE [ algo |-> current_algo, reason |-> Reason("nominal", 0, NoValue) ]

MutShouldSwitchConfidenceFirst(current_algo, perf_data, trend, force, draw_below) ==
    LET total == CurrentField(perf_data, current_algo, "total_predictions", 0)
        consecutive_wrong == CurrentField(perf_data, current_algo, "consecutive_wrong", 0)
        confidence_score == CurrentField(perf_data, current_algo, "confidence_score", Half)
        recent_success_rate ==
            CurrentField(perf_data, current_algo, "recent_success_rate", Half)
        next_algo == SelectNextAlgorithm(current_algo, perf_data)
    IN  IF total < MinPredictionsBeforeSwitch
        THEN [ algo |-> current_algo,
               reason |-> Reason("insufficient_data", 0, NoValue) ]
        ELSE IF RLess(confidence_score, Rat(4, 10))
        THEN [ algo |-> next_algo,
               reason |-> Reason("low_confidence", 0, confidence_score) ]
        ELSE IF consecutive_wrong >= MaxConsecutiveErrors
        THEN [ algo |-> next_algo,
               reason |-> Reason("consecutive_wrong", consecutive_wrong, NoValue) ]
        ELSE IF RLess(recent_success_rate, Rat(4, 10))
        THEN [ algo |-> next_algo,
               reason |-> Reason("low_recent_success", 0, recent_success_rate) ]
        ELSE IF Len(trend) >= 3 /\ StrictlyDeclining(trend)
        THEN [ algo |-> next_algo, reason |-> Reason("declining", 0, NoValue) ]
        ELSE IF force \/ (draw_below /\ total > ExplorationThreshold)
        THEN [ algo |-> next_algo, reason |-> Reason("exploration", 0, NoValue) ]
        ELSE [ algo |-> current_algo, reason |-> Reason("nominal", 0, NoValue) ]

\* should_switch_algorithm(pred_type, current_algo, perf_data); trend is
\* algorithm_trends[pred_type][current_algo], force is force_exploration and
\* draw_below is the outcome of random.random() < exploration_probability
ShouldSwitchAlgorithm(current_algo, perf_data, trend, force, draw_below) ==
    LET total == CurrentField(perf_data, current_algo, "total_predictions", 0)
        consecutive_wrong == CurrentField(perf_data, current_algo, "consecutive_wrong", 0)
        confidence_score == CurrentField(perf_data, current_algo, "confidence_score", Half)
        recent_success_rate ==
            CurrentField(perf_data, current_algo, "recent_success_rate", Half)
        next_algo == SelectNextAlgorithm(current_algo, perf_data)
    IN  IF total < MinPredictionsBeforeSwitch
        THEN [ algo |-> current_algo,
               reason |-> Reason("insufficient_data", 0, NoValue) ]
        ELSE IF consecutive_wrong >= MaxConsecutiveErrors
        THEN [ algo |-> next_algo,
               reason |-> Reason("consecutive_wrong", consecutive_wrong, NoValue) ]
        ELSE IF RLess(confidence_score, Rat(4, 10))
        THEN [ algo |-> next_algo,
               reason |-> Reason("low_confidence", 0, confidence_score) ]
        ELSE IF RLess(recent_success_rate, Rat(4, 10))
        THEN [ algo |-> next_algo,
               reason |-> Reason("low_recent_success", 0, recent_success_rate) ]
        ELSE IF Len(trend) >= 3 /\ StrictlyDeclining(trend)
        THEN [ algo |-> next_algo, reason |-> Reason("declining", 0, NoValue) ]
        ELSE IF force \/ (draw_below /\ total > ExplorationThreshold)
        THEN [ algo |-> next_algo, reason |-> Reason("exploration", 0, NoValue) ]
        ELSE [ algo |-> current_algo, reason |-> Reason("nominal", 0, NoValue) ]

(***************************************************************************)
(* State.                                                                  *)
(***************************************************************************)
VARIABLES
    current_algorithms,        \* PredictorModel.current_algorithms
    algorithm_performance,     \* PredictorModel.algorithm_performance
    last_used_algorithms,      \* PredictorModel.last_used_algorithms
    switch_counters,           \* PredictorModel.switch_counters
    algorithm_trends,          \* AlgorithmSwitcher.algorithm_trends
    algorithm_switch_history,  \* AlgorithmSwitcher.algorithm_switch_history
    forced_exploration_done,   \* AlgorithmSwitcher.forced_exploration_done
    force_exploration,         \* AlgorithmSwitcher.force_exploration
    latest_qihao,              \* qihao of the newest row of lottery_records
    latest_outcome,            \* is_big, is_odd of that row
    predictions,               \* table predictions, by (prediction_type, qihao)
    prediction_cache,          \* table prediction_cache, by (prediction_type, qihao)
    perf_store,                \* table algorithm_performance_details
    save_due,                  \* save_interval has elapsed since last_save_time
    poll_pc,                   \* position of check_lottery_update in its cycle
    last_forecast,             \* history: what the last forecast of a type returned
    last_recorded,             \* history: what the last verify recorded for a type
    served,                    \* history: forecasts returned, by (type, qihao)
    recomputed,                \* history: predict ran again after a result was served
    fed,                       \* history: outcomes fed by direct record calls
    rec_target,                \* the record those direct calls feed
    last_decision,             \* history: the last direct should_switch_algorithm call
    q_table,                   \* ReinforcementLearner.q_table
    model_file,                \* the file at ReinforcementLearner.model_path
    learner_pc,                \* position of the learner inside save_model
    q_updates,                 \* history: update_q_values calls, by algorithm
    learner_log,               \* history: learner steps, last select_algorithm result
    learner_params,            \* ReinforcementLearner learning, discount, exploration rates
    last_save                  \* history: the last save attempts of record calls

vars == << current_algorithms, algorithm_performance, last_used_algorithms,
           switch_counters, algorithm_trends, algorithm_switch_history,
           forced_exploration_done, force_exploration, latest_qihao,
           latest_outcome, predictions, prediction_cache, perf_store, save_due,
           poll_pc, last_forecast, last_recorded, served, recomputed, fed,
           rec_target, last_decision, q_table, model_file, learner_pc,
           q_updates, learner_log, learner_params, last_save >>

predictor_vars == << current_algorithms, algorithm_performance,
                     last_used_algorithms, switch_counters >>
switcher_vars == << algorithm_trends, algorithm_switch_history,
                    forced_exploration_done, force_exploration >>
db_vars == << latest_qihao, latest_outcome, predictions, prediction_cache >>
learner_vars == << q_table, model_file, learner_pc, q_updates, learner_log,
                  learner_params >>
save_ghosts == << last_save >>
forecast_ghosts == << last_forecast, served, recomputed >>
record_ghosts == << fed, rec_target, last_decision >>

(***************************************************************************)
(* The store: rows of predictions and prediction_cache, in column order.   *)
(* Col(row, i) is row[i] of the program (columns count from 0).            *)
(***************************************************************************)
NoRow == <<>>
Col(row, i) == row[i + 1]

\* texts kept in the columns algorithm_used and created_at
JsonObjectText(key, value) == [kind |-> "json_object", key |-> key, value |-> value]
JsonNumberText(value) == [kind |-> "json_number", key |-> "", value |-> value]
TimestampText == [kind |-> "timestamp", key |-> "", value |-> 0]

\* predictions: id, qihao, prediction, prediction_type, algorithm_used,
\*              created_at, updated_at, result_qihao, is_correct
PredictionRow(qihao, prediction, pred_type, algorithm_used, is_correct) ==
    << 0, qihao, prediction, pred_type, algorithm_used, TimestampText,
       "updated_at", "NULL", is_correct >>

\* prediction_cache: id, qihao, prediction, prediction_type, algorithm_used,
\*                   created_at
CacheRow(qihao, prediction, pred_type, algorithm_used) ==
    << 0, qihao, prediction, pred_type, algorithm_used, TimestampText >>

\* save_prediction: insert, or update prediction and algorithm_used of the row
SavePrediction(table, pred_type, qihao, prediction, algorithm_used) ==
    LET old == table[pred_type][qihao]
        row == IF old = NoRow
               THEN PredictionRow(qihao, prediction, pred_type, algorithm_used, "NULL")
               ELSE PredictionRow(qihao, prediction, pred_type, algorithm_used,
                                  Col(old, 8))
    IN  [table EXCEPT ![pred_type][qihao] = row]

\* update_prediction_result: SET is_correct
UpdatePredictionResult(table, pred_type, qihao, is_correct) ==
    LET old == table[pred_type][qihao]
    IN  [table EXCEPT ![pred_type][qihao] =
            PredictionRow(qihao, Col(old, 2), pred_type, Col(old, 4),
                          IF is_correct THEN "1" ELSE "0")]

(***************************************************************************)
(* Forecast labels and the matching rules of verify_prediction.  A label   *)
(* is the sequence of the tokens of the program's label string:            *)
(*   single_double  <<"dan">> ("单") or <<"shuang">> ("双")                 *)
(*   big_small      <<"da">> ("大") or <<"xiao">> ("小")                    *)
(*   kill_group     <<"sha", t>>, t the excluded combination ("杀大单")     *)
(*   double_group   <<t1, t2>>, the listed combinations ("大单/小双")       *)
(***************************************************************************)
\* the lottery outcomes that arrive in the model: big and odd, small and even
Outcomes == {o \in [is_big : BOOLEAN, is_odd : BOOLEAN] : o.is_big = o.is_odd}

\* f"{'大' if is_big else '小'}{'单' if is_odd else '双'}"
ActualCombination(outcome) ==
    IF outcome.is_big
    THEN (IF outcome.is_odd THEN "da_dan" ELSE "da_shuang")
    ELSE (IF outcome.is_odd THEN "xiao_dan" ELSE "xiao_shuang")

\* the is_correct that verify_prediction computes for a stored label
IsCorrect(pred_type, prediction, outcome) ==
    CASE pred_type = "single_double" ->
            IF \E i \in 1..Len(prediction) : prediction[i] = "dan"
            THEN outcome.is_odd ELSE ~outcome.is_odd
      [] pred_type = "big_small" ->
            IF \E i \in 1..Len(prediction) : prediction[i] = "da"
            THEN outcome.is_big ELSE ~outcome.is_big
      [] pred_type = "kill_group" ->
            LET kill_target == IF Len(prediction) > 1 THEN Tail(prediction) ELSE <<>>
            IN  kill_target # <<ActualCombination(outcome)>>
      [] pred_type = "double_group" ->
            \E i \in 1..Len(prediction) : prediction[i] = ActualCombination(outcome)

\* the pluggable forecasting functions are opaque to the selection core; this
\* one stands for them: a label fixed by the algorithm and the latest period
PluggableForecast(pred_type, algo, latest) ==
    LET even == (algo + latest) % 2 = 0
    IN  CASE pred_type = "single_double" -> IF even THEN <<"shuang">> ELSE <<"dan">>
          [] pred_type = "big_small"     -> IF even THEN <<"da">> ELSE <<"xiao">>
          [] pred_type = "kill_group"    ->
                IF even THEN <<"sha", "da_dan">> ELSE <<"sha", "xiao_shuang">>
          [] pred_type = "double_group"  ->
                IF even THEN <<"da_dan", "da_shuang">>
                ELSE <<"xiao_dan", "xiao_shuang">>

(***************************************************************************)
(* Persistence of the performance data (save_algorithm_performance).       *)
(* json.dumps writes the integer keys of 'algorithms' as strings.          *)
(***************************************************************************)
\* for pred_type in ['single_double', 'big_small', 'kill_group', 'double_group']
CategoryOrder == <<"single_double", "big_small", "kill_group", "double_group">>

AlgorithmKeys == {"1", "2", "3"}
KeyOf(a) == CASE a = 1 -> "1" [] a = 2 -> "2" [] a = 3 -> "3"

\* save_data of one prediction type
Snapshot(current, perf, pred_type) ==
    [ current_algorithm |-> current[pred_type],
      algorithms |-> [k \in AlgorithmKeys |->
                        perf[pred_type][CHOOSE a \in Algorithms : KeyOf(a) = k]] ]

SnapshotAll(current, perf) == [c \in Categories |-> Snapshot(current, perf, c)]

(***************************************************************************)
(* PredictorModel.update_algorithm_performance on the threaded state       *)
(* st = [perf, trends, store, due]: the record, the trend value, the save. *)
(***************************************************************************)
MutSaveStopsAtFirstFailure(store, current, perf, failed) ==
    [c \in Categories |->
        IF \E i \in 1..Len(CategoryOrder) :
              /\ CategoryOrder[i] \in failed
              /\ \E j \in i..Len(CategoryOrder) : CategoryOrder[j] = c
        THEN store[c] ELSE Snapshot(current, perf, c)]

\* save_algorithm_performance once the interval has elapsed: one row per
\* prediction type; db_manager.save_algorithm_performance catches whatever
\* fails and the loop goes on to the next type.  failed is the set of types
\* whose write fails.
SaveAlgorithmPerformance(store, current, perf, failed) ==
    [c \in Categories |->
        IF c \in failed THEN store[c] ELSE Snapshot(current, perf, c)]

UpdateAlgorithmPerformance(st, current, pred_type, algo_num, is_correct) ==
    LET perf   == [st.perf EXCEPT ![pred_type][algo_num] = UpdatePerf(@, is_correct)]
        trends == [st.trends EXCEPT ![pred_type][algo_num] =
                      PushTrend(@, perf[pred_type][algo_num].recent_success_rate)]
    IN  [ perf   |-> perf,
          trends |-> trends,
          store  |-> IF st.due
                     THEN SaveAlgorithmPerformance(st.store, current, perf, {})
                     ELSE st.store,
          due    |-> FALSE ]

(***************************************************************************)
(* verify_prediction(qihao, outcome): one prediction type of its loop.     *)
(***************************************************************************)
\* json.loads(text) followed by .get(pred_type, 1): 0 stands for the
\* AttributeError that a JSON number raises at .get
ParseAlgorithm(text, pred_type) ==
    CASE text.kind = "json_object" ->
            IF text.key = pred_type THEN text.value ELSE 1
      [] text.kind = "json_number" -> 0
      [] text.kind = "timestamp"   -> 1

\* the algo_num that verify_prediction passes to update_algorithm_performance;
\* 0 when the update is skipped by the exception handler
VerifyAlgorithm(row, pred_type) ==
    LET parsed == ParseAlgorithm(Col(row, VerifyAlgorithmColumn), pred_type)
    IN  IF parsed = 0 THEN 0
        ELSE IF pred_type \in {"single_double", "big_small"} THEN 1
        ELSE IF parsed < 1 \/ parsed > 3 THEN 1
        ELSE parsed

\* the state after the loop body for pred_type; vs = [st, table, recorded].
\* recorded is history: the period verified last, the algo_num passed on, the
\* stored algorithm_used, how many times that period's forecast was recorded,
\* the algorithm that produced the forecast, how many forecasts in a row it
\* produced and how many of the latest of them in a row were judged wrong
VerifyOne(vs, current, pred_type, qihao, outcome) ==
    LET row == vs.table[pred_type][qihao]
    IN  IF row = NoRow THEN vs
        ELSE LET is_correct == IsCorrect(pred_type, Col(row, 2), outcome)
                 algo_num   == VerifyAlgorithm(row, pred_type)
                 before     == vs.recorded[pred_type]
                 again      == before.qihao = qihao
                 producer   == Col(row, 4).value
                 same       == before.producer = producer
             IN  [ st |-> IF algo_num = 0 THEN vs.st
                          ELSE UpdateAlgorithmPerformance(vs.st, current, pred_type,
                                                          algo_num, is_correct),
                   table |-> UpdatePredictionResult(vs.table, pred_type, qihao,
                                                    is_correct),
                   recorded |-> [vs.recorded EXCEPT ![pred_type] =
                                    [ qihao |-> qihao, algo |-> algo_num,
                                      stored |-> Col(row, 4),
                                      times |->
                                        (IF again THEN before.times ELSE 0)
                                            + (IF algo_num = 0 THEN 0 ELSE 1),
                                      producer |-> producer,
                                      by_producer |->
                                        IF again THEN before.by_producer
                                        ELSE IF same THEN before.by_producer + 1
                                        ELSE 1,
                                      wrong_run |->
                                        IF again THEN before.wrong_run
                                        ELSE IF is_correct THEN 0
                                        ELSE IF same THEN before.wrong_run + 1
                                        ELSE 1 ]] ]

RECURSIVE VerifyLoop(_, _, _, _, _)
VerifyLoop(vs, current, order, qihao, outcome) ==
    IF order = <<>> THEN vs
    ELSE VerifyLoop(VerifyOne(vs, current, Head(order), qihao, outcome),
                    current, Tail(order), qihao, outcome)

(***************************************************************************)
(* Initial states.  The predictor is constructed from the performance data *)
(* that an earlier run saved: algorithm 1 of every prediction type has     *)
(* been fed one of InitStreams (the other algorithms are never fed by      *)
(* verify_prediction), everything kept in memory only starts empty.        *)
(***************************************************************************)
RECURSIVE PerfAfter(_, _)
PerfAfter(perf, stream) ==
    IF stream = <<>> THEN perf
    ELSE PerfAfter(UpdatePerf(perf, Head(stream) = 1), Tail(stream))

InitStreams ==
    { <<1, 1, 0, 0>>,
      <<1, 1, 0, 0, 0>>,
      <<1, 0, 1, 1, 0, 1, 1, 0, 1, 1, 1>> }

\* the period ids of the tables: those that arrive and the one after them
Qihaos == 1..(MaxPeriods + 1)

NoForecast == [qihao |-> 0]
NoRecorded == [qihao |-> 0, times |-> 0, producer |-> 0, by_producer |-> 0, wrong_run |-> 0]
NoDecision == [pred_type |-> "none"]
NoTrends == [c \in Categories |-> [a \in Algorithms |-> <<>>]]

InitMemory ==
    /\ last_used_algorithms = [c \in Categories |-> [q \in Qihaos |-> 0]]
    /\ switch_counters = [c \in Categories |-> 0]
    /\ algorithm_switch_history = [c \in Categories |-> <<>>]
    /\ forced_exploration_done = [c \in Categories |-> FALSE]
    /\ force_exploration = FALSE
    /\ save_due = FALSE
    /\ last_forecast = [c \in Categories |-> NoForecast]
    /\ last_recorded = [c \in Categories |-> NoRecorded]
    /\ served = [c \in Categories |-> [q \in Qihaos |-> {}]]
    /\ recomputed = [c \in Categories |-> [q \in Qihaos |-> FALSE]]
    /\ fed = <<>>
    /\ last_decision = NoDecision

\* ReinforcementLearner.__init__ with no model file on disk
\* resolution of the fixed-point Q-values
QScale == 100000
\* learning_rate = 0.05, in hundredths
LearningRatePercent == 5
\* discount_factor = 0.95, in hundredths
DiscountPercent == 95

\* learning_rate = 0.05, discount_factor = 0.95, exploration_rate = 0.2, in
\* QScale units
InitialParams ==
    [ learning_rate    |-> (LearningRatePercent * QScale) \div 100,
      discount_factor  |-> (DiscountPercent * QScale) \div 100,
      exploration_rate |-> QScale \div 5 ]

InitLearner ==
    /\ q_table = [s \in LearnerStates |-> NoRow]
    /\ model_file = [kind |-> "absent"]
    /\ learner_pc = "idle"
    /\ q_updates = [a \in Algorithms |-> 0]
    /\ learner_params = InitialParams
    /\ learner_log = [ steps |-> 0, selected |-> 0, run |-> 0, left |-> 0,
                       reward |-> <<>>, call |-> <<>> ]

NoSave == [attempted |-> FALSE, failed |-> {}, retried |-> FALSE]

InitStore ==
    /\ InitLearner
    /\ last_save = NoSave
    /\ latest_qihao = 0
    /\ latest_outcome = [is_big |-> FALSE, is_odd |-> FALSE]
    /\ predictions = [c \in Categories |-> [q \in Qihaos |-> NoRow]]
    /\ prediction_cache = [c \in Categories |-> [q \in Qihaos |-> NoRow]]
    /\ poll_pc = "idle"

Init ==
    /\ InitMemory
    /\ InitStore
    /\ algorithm_trends = NoTrends
    /\ current_algorithms = [c \in Categories |-> 1]
    /\ \E stream \in InitStreams :
          algorithm_performance =
              [c \in Categories |->
                 [a \in Algorithms |->
                    IF a = 1 THEN PerfAfter(DefaultPerf, stream) ELSE DefaultPerf]]
    /\ perf_store = SnapshotAll(current_algorithms, algorithm_performance)
    /\ rec_target = <<"single_double", 1>>

(***************************************************************************)
(* send_prediction(prediction_type): calculate_prediction, save_prediction *)
(* (the TTL gate of the message cache either skips the call, which changes *)
(* nothing, or lets it through).                                           *)
(***************************************************************************)
SumCounters ==
    switch_counters["single_double"] + switch_counters["big_small"]
        + switch_counters["kill_group"] + switch_counters["double_group"]

\* self.algorithm_trends.get(pred_type, {}).get(current_algo, [])
TrendOf(pred_type, algo) ==
    IF algo \in Algorithms THEN algorithm_trends[pred_type][algo] ELSE <<>>

MutForecastCachedWrongColumn(c, next, cached) ==
    LET result == <<Col(cached, 2), Col(cached, 5)>>
    IN  /\ predictions' = SavePrediction(predictions, c, next, result[1], result[2])
        /\ served' = [served EXCEPT ![c][next] = @ \cup {result}]
        /\ last_forecast' = [last_forecast EXCEPT ![c] =
                                [ qihao |-> next, cache_hit |-> TRUE,
                                  result |-> result,
                                  from_algo |-> current_algorithms[c],
                                  to_algo |-> current_algorithms[c] ]]
        /\ UNCHANGED << save_ghosts, learner_vars, predictor_vars, switcher_vars, latest_qihao, latest_outcome,
                        prediction_cache, perf_store, save_due, poll_pc,
                        last_recorded, recomputed, record_ghosts >>

MutForecastCachedCountsCheck(c, next, cached) ==
    LET result == <<Col(cached, 2), Col(cached, 4)>>
    IN  /\ predictions' = SavePrediction(predictions, c, next, result[1], result[2])
        /\ served' = [served EXCEPT ![c][next] = @ \cup {result}]
        /\ switch_counters' = [switch_counters EXCEPT ![c] = @ + 1]
        /\ last_forecast' = [last_forecast EXCEPT ![c] =
                                [ qihao |-> next, cache_hit |-> TRUE,
                                  result |-> result,
                                  from_algo |-> current_algorithms[c],
                                  to_algo |-> current_algorithms[c] ]]
        /\ UNCHANGED << save_ghosts, learner_vars, current_algorithms, algorithm_performance,
                        last_used_algorithms, switcher_vars, latest_qihao,
                        latest_outcome, prediction_cache, perf_store, save_due, poll_pc,
                        last_recorded, recomputed, record_ghosts >>

\* the cache hit of calculate_prediction, then save_prediction of its result
ForecastCached(c, next, cached) ==
    LET result == <<Col(cached, 2), Col(cached, 4)>>
    IN  /\ predictions' = SavePrediction(predictions, c, next, result[1], result[2])
        /\ served' = [served EXCEPT ![c][next] = @ \cup {result}]
        /\ last_forecast' = [last_forecast EXCEPT ![c] =
                                [ qihao |-> next, cache_hit |-> TRUE,
                                  result |-> result,
                                  from_algo |-> current_algorithms[c],
                                  to_algo |-> current_algorithms[c] ]]
        /\ UNCHANGED << save_ghosts, learner_vars, predictor_vars, switcher_vars, latest_qihao, latest_outcome,
                        prediction_cache, perf_store, save_due, poll_pc,
                        last_recorded, recomputed, record_ghosts >>

MutCalculatePredictionCachesFailure(c, next, predict_ok, draw_below) ==
    LET checks     == switch_counters[c] + 1
        fixed      == c = "big_small"
        rearm      == ~fixed /\ checks >= ForcedExplorationResetChecks
        old_algo   == current_algorithms[c]
        decision   == ShouldSwitchAlgorithm(old_algo, algorithm_performance[c],
                                            TrendOf(c, old_algo), force_exploration,
                                            draw_below)
        new_algo   == IF fixed THEN 1 ELSE decision.algo
        content    == PluggableForecast(c, new_algo, latest_qihao)
        algo_text  == JsonObjectText(c, new_algo)
        result     == IF predict_ok THEN <<content, algo_text>> ELSE <<>>
    IN  /\ switch_counters' = [switch_counters EXCEPT ![c] = IF rearm THEN 0 ELSE checks]
        /\ forced_exploration_done' =
              IF rearm THEN [t \in Categories |-> FALSE] ELSE forced_exploration_done
        /\ current_algorithms' = [current_algorithms EXCEPT ![c] = new_algo]
        /\ last_used_algorithms' = [last_used_algorithms EXCEPT ![c][next] = new_algo]
        /\ prediction_cache' =
              [prediction_cache EXCEPT ![c][next] =
                   CacheRow(next, content, c, algo_text)]
        /\ predictions' =
              IF predict_ok
              THEN SavePrediction(predictions, c, next, content, algo_text)
              ELSE predictions
        /\ served' = IF predict_ok THEN [served EXCEPT ![c][next] = @ \cup {result}]
                     ELSE served
        /\ recomputed' = [recomputed EXCEPT ![c][next] = @ \/ served[c][next] # {}]
        /\ last_forecast' = [last_forecast EXCEPT ![c] =
                                [ qihao |-> next, cache_hit |-> FALSE,
                                  result |-> result,
                                  from_algo |-> old_algo, to_algo |-> new_algo ]]
        /\ UNCHANGED << save_ghosts, learner_vars, algorithm_performance, algorithm_trends,
                        algorithm_switch_history, force_exploration, latest_qihao,
                        latest_outcome, perf_store, save_due, poll_pc,
                        last_recorded, record_ghosts >>

MutCalculatePredictionLateRearm(c, next, predict_ok, draw_below) ==
    LET checks     == switch_counters[c] + 1
        fixed      == c = "big_small"
        rearm      == ~fixed /\ checks > ForcedExplorationResetChecks
        old_algo   == current_algorithms[c]
        decision   == ShouldSwitchAlgorithm(old_algo, algorithm_performance[c],
                                            TrendOf(c, old_algo), force_exploration,
                                            draw_below)
        new_algo   == IF fixed THEN 1 ELSE decision.algo
        content    == PluggableForecast(c, new_algo, latest_qihao)
        algo_text  == JsonObjectText(c, new_algo)
        result     == IF predict_ok THEN <<content, algo_text>> ELSE <<>>
    IN  /\ switch_counters' = [switch_counters EXCEPT ![c] = IF rearm THEN 0 ELSE checks]
        /\ forced_exploration_done' =
              IF rearm THEN [t \in Categories |-> FALSE] ELSE forced_exploration_done
        /\ current_algorithms' = [current_algorithms EXCEPT ![c] = new_algo]
        /\ last_used_algorithms' = [last_used_algorithms EXCEPT ![c][next] = new_algo]
        /\ prediction_cache' =
              IF predict_ok
              THEN [prediction_cache EXCEPT ![c][next] =
                        CacheRow(next, content, c, algo_text)]
              ELSE prediction_cache
        /\ predictions' =
              IF predict_ok
              THEN SavePrediction(predictions, c, next, content, algo_text)
              ELSE predictions
        /\ served' = IF predict_ok THEN [served EXCEPT ![c][next] = @ \cup {result}]
                     ELSE served
        /\ recomputed' = [recomputed EXCEPT ![c][next] = @ \/ served[c][next] # {}]
        /\ last_forecast' = [last_forecast EXCEPT ![c] =
                                [ qihao |-> next, cache_hit |-> FALSE,
                                  result |-> result,
                                  from_algo |-> old_algo, to_algo |-> new_algo ]]
        /\ UNCHANGED << save_ghosts, learner_vars, algorithm_performance, algorithm_trends,
                        algorithm_switch_history, force_exploration, latest_qihao,
                        latest_outcome, perf_store, save_due, poll_pc,
                        last_recorded, record_ghosts >>

\* calculate_prediction past the cache check (lines 266-351), then
\* save_prediction of its result
CalculatePrediction(c, next, predict_ok, draw_below) ==
    LET checks     == switch_counters[c] + 1
        fixed      == c = "big_small"
        rearm      == ~fixed /\ checks >= ForcedExplorationResetChecks
        old_algo   == current_algorithms[c]
        decision   == ShouldSwitchAlgorithm(old_algo, algorithm_performance[c],
                                            TrendOf(c, old_algo), force_exploration,
                                            draw_below)
        new_algo   == IF fixed THEN 1 ELSE decision.algo
        content    == PluggableForecast(c, new_algo, latest_qihao)
        algo_text  == JsonObjectText(c, new_algo)
        result     == IF predict_ok THEN <<content, algo_text>> ELSE <<>>
    IN  /\ switch_counters' = [switch_counters EXCEPT ![c] = IF rearm THEN 0 ELSE checks]
        /\ forced_exploration_done' =
              IF rearm THEN [t \in Categories |-> FALSE] ELSE forced_exploration_done
        /\ current_algorithms' = [current_algorithms EXCEPT ![c] = new_algo]
        /\ last_used_algorithms' = [last_used_algorithms EXCEPT ![c][next] = new_algo]
        /\ prediction_cache' =
              IF predict_ok
              THEN [prediction_cache EXCEPT ![c][next] =
                        CacheRow(next, content, c, algo_text)]
              ELSE prediction_cache
        /\ predictions' =
              IF predict_ok
              THEN SavePrediction(predictions, c, next, content, algo_text)
              ELSE predictions
        /\ served' = IF predict_ok THEN [served EXCEPT ![c][next] = @ \cup {result}]
                     ELSE served
        /\ recomputed' = [recomputed EXCEPT ![c][next] = @ \/ served[c][next] # {}]
        /\ last_forecast' = [last_forecast EXCEPT ![c] =
                                [ qihao |-> next, cache_hit |-> FALSE,
                                  result |-> result,
                                  from_algo |-> old_algo, to_algo |-> new_algo ]]
        /\ UNCHANGED << save_ghosts, learner_vars, algorithm_performance, algorithm_trends,
                        algorithm_switch_history, force_exploration, latest_qihao,
                        latest_outcome, perf_store, save_due, poll_pc,
                        last_recorded, record_ghosts >>

\* an uncached forecast, at most MaxForecasts of them in a behaviour
ForecastComputed(c, next, predict_ok, draw_below) ==
    /\ SumCounters < MaxForecasts
    /\ CalculatePrediction(c, next, predict_ok, draw_below)

Forecast(c) ==
    \E predict_ok \in BOOLEAN, draw_below \in BOOLEAN :
        LET next   == latest_qihao + 1
            cached == prediction_cache[c][next]
        IN  IF cached # NoRow
            THEN ForecastCached(c, next, cached)
            ELSE ForecastComputed(c, next, predict_ok, draw_below)

(***************************************************************************)
(* check_lottery_update: one new lottery record per cycle; the record is   *)
(* saved, then verify_prediction runs in the executor, then                *)
(* auto_run_all_predictions runs.  Handlers run between the three steps.   *)
(***************************************************************************)
PollNewRecord ==
    /\ poll_pc = "idle"
    /\ latest_qihao < MaxQihao
    /\ \E outcome \in Outcomes :
          /\ latest_qihao' = latest_qihao + 1
          /\ latest_outcome' = outcome
    /\ poll_pc' = "verify"
    /\ UNCHANGED << save_ghosts, learner_vars, predictor_vars, switcher_vars, predictions, prediction_cache,
                    perf_store, save_due, forecast_ghosts, last_recorded,
                    record_ghosts >>

PollVerify ==
    /\ poll_pc = "verify"
    /\ LET before == [ st |-> [ perf |-> algorithm_performance,
                                trends |-> algorithm_trends,
                                store |-> perf_store, due |-> save_due ],
                       table |-> predictions,
                       recorded |-> last_recorded ]
           after == VerifyLoop(before, current_algorithms, CategoryOrder,
                               latest_qihao, latest_outcome)
       IN  /\ algorithm_performance' = after.st.perf
           /\ algorithm_trends' = after.st.trends
           /\ perf_store' = after.st.store
           /\ save_due' = after.st.due
           /\ predictions' = after.table
           /\ last_recorded' = after.recorded
    /\ poll_pc' = "auto_run"
    /\ UNCHANGED << save_ghosts, learner_vars, current_algorithms, last_used_algorithms, switch_counters,
                    algorithm_switch_history, forced_exploration_done,
                    force_exploration, latest_qihao, latest_outcome,
                    prediction_cache, forecast_ghosts, record_ghosts >>

\* auto_run_all_predictions: a row for every prediction type that has none for
\* the next period, from predictor.predict and str(current algorithm); a failure
\* of the forecasting function is modelled where calculate_prediction calls it
AutoRunTable ==
    [c \in Categories |->
       [q \in Qihaos |->
          IF q = latest_qihao + 1 /\ predictions[c][q] = NoRow
          THEN PredictionRow(q, PluggableForecast(c, current_algorithms[c],
                                                   latest_qihao),
                             c, JsonNumberText(current_algorithms[c]), "NULL")
          ELSE predictions[c][q]]]

PollAutoRun ==
    /\ poll_pc = "auto_run"
    /\ predictions' = AutoRunTable
    /\ poll_pc' = "idle"
    /\ UNCHANGED << save_ghosts, learner_vars, predictor_vars, switcher_vars, latest_qihao, latest_outcome,
                    prediction_cache, perf_store, save_due, forecast_ghosts,
                    last_recorded, record_ghosts >>

Next ==
    \/ \E c \in Categories : Forecast(c)
    \/ PollNewRecord
    \/ PollVerify
    \/ PollAutoRun

Spec == Init /\ [][Next]_vars

(***************************************************************************)
(* Properties of the forecast and verify operations, under Spec.           *)
(***************************************************************************)
\* C1: over the forecast operations, a SwitchEvent is appended to the switch
\* history of a prediction type if and only if the current algorithm of that
\* type changes value in the same step.
C1_SwitchEventIffSelectionChanges ==
    [][ \A c \in Categories :
            (current_algorithms'[c] # current_algorithms[c])
                <=> (algorithm_switch_history'[c] # algorithm_switch_history[c]) ]_vars

\* C2: every forecast returned for one (prediction type, period) is the same
\* content and algorithm id, a cache hit returns exactly what was served
\* before, and the forecasting function never runs for a (type, period) whose
\* forecast has already been served.
C2_CachedForecastIdempotent ==
    \A c \in Categories :
        /\ \A q \in Qihaos : Cardinality(served[c][q]) <= 1 /\ ~recomputed[c][q]
        /\ (last_forecast[c].qihao # 0 /\ last_forecast[c].cache_hit)
              => served[c][last_forecast[c].qihao] = {last_forecast[c].result}

\* a forecast has been answered from the cache
C2_Witness ==
    \E c \in Categories :
        /\ last_forecast[c].qihao # 0
        /\ last_forecast[c].cache_hit
        /\ last_forecast[c].result # <<>>

\* C3: verify records the outcome into the record of exactly the algorithm id
\* that was stored with the forecast of that period.
C3_VerifyRecordsStoredAlgorithm ==
    \A c \in Categories :
        last_recorded[c].qihao # 0
            => last_recorded[c].algo = last_recorded[c].stored.value

\* C11: a forecast answered from the cache runs no selection logic: the
\* current algorithms, the check counters, the forced-exploration flags, the
\* switch history, the performance records and the trends are the same after
\* the call as before it.
C11_CacheHitRunsNoSelection ==
    [][ \A c \in Categories :
            (last_forecast'[c] # last_forecast[c] /\ last_forecast'[c].cache_hit)
                => UNCHANGED << save_ghosts, learner_vars, current_algorithms, switch_counters,
                                last_used_algorithms, forced_exploration_done,
                                force_exploration, algorithm_switch_history,
                                algorithm_performance, algorithm_trends >> ]_vars

\* a cache hit on a prediction type whose forecast had switched to algorithm 2
C11_Witness ==
    \E c \in Categories :
        /\ last_forecast[c].qihao # 0
        /\ last_forecast[c].cache_hit
        /\ current_algorithms[c] = 2
        /\ switch_counters[c] = 1

(***************************************************************************)
(* SpecRecord: update_algorithm_performance called directly, any outcomes, *)
(* on one record that starts as the default record of __init__.  A stream  *)
(* of outcomes is arbitrary up to MaxFreeRecords calls; longer streams     *)
(* hold at most MaxMinority outcomes of their rarer kind.                 *)
(***************************************************************************)
RecordTargets ==
    { <<"single_double", 1>>, <<"kill_group", 2>>, <<"double_group", 3>> }

Minority(stream) ==
    LET ones == SumSeq(stream)
    IN  IF ones <= Len(stream) - ones THEN ones ELSE Len(stream) - ones

InitRecord ==
    /\ InitMemory
    /\ InitStore
    /\ algorithm_trends = NoTrends
    /\ current_algorithms = [c \in Categories |-> 1]
    /\ algorithm_performance = [c \in Categories |-> [a \in Algorithms |-> DefaultPerf]]
    /\ perf_store = SnapshotAll(current_algorithms, algorithm_performance)
    /\ rec_target \in RecordTargets

RecordCall(is_correct) ==
    LET stream == Append(fed, IF is_correct THEN 1 ELSE 0)
        before == [ perf |-> algorithm_performance, trends |-> algorithm_trends,
                    store |-> perf_store, due |-> save_due ]
        after  == UpdateAlgorithmPerformance(before, current_algorithms,
                                             rec_target[1], rec_target[2], is_correct)
    IN  /\ Len(fed) < MaxRecords
        /\ Len(fed) < MaxFreeRecords \/ Minority(stream) <= MaxMinority
        /\ algorithm_performance' = after.perf
        /\ algorithm_trends' = after.trends
        /\ perf_store' = after.store
        /\ save_due' = after.due
        /\ fed' = stream
        /\ UNCHANGED << save_ghosts, learner_vars, current_algorithms, last_used_algorithms, switch_counters,
                        algorithm_switch_history, forced_exploration_done,
                        force_exploration, db_vars, poll_pc, forecast_ghosts,
                        last_recorded, rec_target, last_decision >>

NextRecord == \E is_correct \in BOOLEAN : RecordCall(is_correct)

SpecRecord == InitRecord /\ [][NextRecord]_vars

\* the record that the direct calls feed
TargetPerf == algorithm_performance[rec_target[1]][rec_target[2]]

\* the number of equal outcomes `bit` that end the stream
RECURSIVE TrailingRun(_, _)
TrailingRun(stream, bit) ==
    IF stream = <<>> \/ stream[Len(stream)] # bit THEN 0
    ELSE 1 + TrailingRun(SubSeq(stream, 1, Len(stream) - 1), bit)

\* C4: after any sequence of record calls from the default record, the
\* confidence_score of every record lies in [0.1, 0.95].
C4_ConfidenceWithinBounds ==
    \A c \in Categories, a \in Algorithms :
        /\ RLeq(Rat(1, 10), algorithm_performance[c][a].confidence_score)
        /\ RLeq(algorithm_performance[c][a].confidence_score, Rat(19, 20))

\* the clamp acted: the unclamped sum of the fed record is above 0.95
C4_Witness ==
    /\ fed # <<>>
    /\ RLess(Rat(19, 20), RawConfidence(TargetPerf))
    /\ TargetPerf.confidence_score = Rat(19, 20)

\* C5: after any record call at least one of consecutive_correct and
\* consecutive_wrong is 0: a correct outcome increments consecutive_correct
\* and resets consecutive_wrong, a wrong outcome does the inverse, so each
\* counter is the length of the run of its outcome that ends the stream.
C5_StreakCountersExclusive ==
    /\ \A c \in Categories, a \in Algorithms :
          \/ algorithm_performance[c][a].consecutive_correct = 0
          \/ algorithm_performance[c][a].consecutive_wrong = 0
    /\ TargetPerf.consecutive_correct = TrailingRun(fed, 1)
    /\ TargetPerf.consecutive_wrong = TrailingRun(fed, 0)

\* a run of correct outcomes was reset by a wrong one, which a correct one followed
C5_Witness ==
    /\ Len(fed) >= 4
    /\ fed[Len(fed)] = 1
    /\ fed[Len(fed) - 1] = 0
    /\ fed[Len(fed) - 2] = 1
    /\ TargetPerf.consecutive_correct = 1

\* C6: recent_results never holds more than 20 outcomes.
C6_RecentResultsBounded ==
    \A c \in Categories, a \in Algorithms :
        Len(algorithm_performance[c][a].recent_results) <= MaxRecentResults

\* more than 20 outcomes were fed and the window is full
C6_Witness ==
    /\ Len(fed) > MaxRecentResults
    /\ Len(TargetPerf.recent_results) = MaxRecentResults

\* C7: recent_results is a first-in first-out window: after n record calls it
\* holds the last min(n, 20) outcomes in arrival order.
C7_RecentResultsIsFifoWindow ==
    LET n    == Len(fed)
        kept == IF n < MaxRecentResults THEN n ELSE MaxRecentResults
    IN  TargetPerf.recent_results = SubSeq(fed, n - kept + 1, n)

\* 25 outcomes were fed, the only wrong one among the first 5, and it has left
C7_Witness ==
    /\ Len(fed) = MaxRecentResults + 5
    /\ \E i \in 1..5 : fed[i] = 0
    /\ Len(TargetPerf.recent_results) = MaxRecentResults
    /\ \A j \in 1..Len(TargetPerf.recent_results) : TargetPerf.recent_results[j] = 1

(***************************************************************************)
(* SpecSwitch: should_switch_algorithm called directly.  Every algorithm   *)
(* of the prediction types has been fed one of SwitchStreams; the trends   *)
(* are those of the streams, or those of their last 3 outcomes: trends are *)
(* kept in memory only and start empty at a restart, which came before the *)
(* stream or before its last 3 outcomes.                                   *)
(* set_force_exploration is the switcher's public setter.                  *)
(***************************************************************************)
SwitchStreams ==
    { <<>>,
      <<0, 0, 0>>,
      <<0, 0, 0, 0, 0, 0>>,
      <<0, 0, 1, 0, 0>>,
      <<0, 0, 0, 0, 0, 0, 0, 1, 1, 1, 1>>,
      <<1, 1, 1, 1, 1, 1, 0, 0>>,
      <<1, 0, 1, 1, 0, 1, 1, 0, 1, 1, 1>> }

\* the trend values that update_algorithm_performance appends over a stream
RECURSIVE TrendAfter(_, _, _)
TrendAfter(perf, trend, stream) ==
    IF stream = <<>> THEN trend
    ELSE LET next == UpdatePerf(perf, Head(stream) = 1)
         IN  TrendAfter(next, PushTrend(trend, next.recent_success_rate), Tail(stream))

InitSwitch ==
    /\ InitMemory
    /\ InitStore
    /\ \E cur \in Algorithms :
          current_algorithms = [c \in Categories |-> IF c = "big_small" THEN 1 ELSE cur]
    /\ \E pick \in [Algorithms -> SwitchStreams], kept \in {3, MaxTrendValues} :
          /\ algorithm_performance =
                [c \in Categories |-> [a \in Algorithms |-> PerfAfter(DefaultPerf, pick[a])]]
          /\ algorithm_trends =
                [c \in Categories |->
                   [a \in Algorithms |->
                      LET trend == TrendAfter(DefaultPerf, <<>>, pick[a])
                          n     == Len(trend)
                      IN  IF n <= kept THEN trend
                          ELSE SubSeq(trend, n - kept + 1, n)]]
    /\ perf_store = SnapshotAll(current_algorithms, algorithm_performance)
    /\ rec_target = <<"single_double", 1>>

\* should_switch_algorithm(pred_type, current algorithm, performance data)
SwitchCheck(c, draw_below) ==
    LET current_algo == current_algorithms[c]
        decision == ShouldSwitchAlgorithm(current_algo, algorithm_performance[c],
                                          TrendOf(c, current_algo), force_exploration,
                                          draw_below)
    IN  /\ last_decision' =
              [ pred_type |-> c,
                current |-> current_algo,
                total |-> CurrentField(algorithm_performance[c], current_algo,
                                       "total_predictions", 0),
                consecutive_wrong |-> CurrentField(algorithm_performance[c], current_algo,
                                                   "consecutive_wrong", 0),
                draw_below |-> draw_below,
                algo |-> decision.algo,
                reason |-> decision.reason ]
        /\ UNCHANGED << save_ghosts, learner_vars, predictor_vars, switcher_vars, db_vars, perf_store, save_due,
                        poll_pc, forecast_ghosts, last_recorded, fed, rec_target >>

\* set_force_exploration(enabled)
SetForceExploration(enabled) ==
    /\ force_exploration' = enabled
    /\ UNCHANGED << save_ghosts, learner_vars, predictor_vars, algorithm_trends, algorithm_switch_history,
                    forced_exploration_done, db_vars, perf_store, save_due, poll_pc,
                    forecast_ghosts, last_recorded, record_ghosts >>

NextSwitch ==
    \/ \E c \in Categories, draw_below \in BOOLEAN : SwitchCheck(c, draw_below)
    \/ \E enabled \in BOOLEAN : SetForceExploration(enabled)

SpecSwitch == InitSwitch /\ [][NextSwitch]_vars

\* C8: when the current algorithm has fewer than 5 total_predictions, the
\* switch decision returns the current algorithm with the reason "数据不足"
\* (insufficient_data) and the call changes no state of the predictor, the
\* switcher or the store, whatever the other fields, the trend and the
\* forced-exploration flag are.
C8_InsufficientDataKeepsCurrent ==
    [][ (last_decision' # last_decision /\ last_decision'.total < MinPredictionsBeforeSwitch)
            => /\ last_decision'.algo = last_decision'.current
               /\ last_decision'.reason = Reason("insufficient_data", 0, NoValue)
               /\ UNCHANGED << save_ghosts, learner_vars, predictor_vars, switcher_vars, db_vars, perf_store >> ]_vars

\* a decision on a record with 3 totals, all wrong, under forced exploration
C8_Witness ==
    /\ last_decision # NoDecision
    /\ last_decision.total < MinPredictionsBeforeSwitch
    /\ last_decision.consecutive_wrong >= MaxConsecutiveErrors
    /\ force_exploration
    /\ last_decision.algo = last_decision.current

\* C9: when the current algorithm has at least 5 total_predictions and at
\* least 3 consecutive_wrong, the switch decision returns an algorithm id in
\* {1, 2, 3} other than the current one, and its reason is "连续错误次数过多"
\* (consecutive_wrong) with that count.
C9_ConsecutiveWrongSwitches ==
    (/\ last_decision # NoDecision
     /\ last_decision.total >= MinPredictionsBeforeSwitch
     /\ last_decision.consecutive_wrong >= MaxConsecutiveErrors)
        => /\ last_decision.algo \in Algorithms \ {last_decision.current}
           /\ last_decision.reason =
                 Reason("consecutive_wrong", last_decision.consecutive_wrong, NoValue)

\* such a decision was taken, from each current algorithm it can be taken from
C9_Witness ==
    /\ last_decision # NoDecision
    /\ last_decision.total >= MinPredictionsBeforeSwitch
    /\ last_decision.consecutive_wrong >= MaxConsecutiveErrors
    /\ last_decision.current = 3
    /\ last_decision.algo \in {1, 2}

\* C25: the reason that should_switch_algorithm returns is that of the first
\* rule, in the order insufficient data, consecutive wrong, low confidence,
\* low recent success rate, declining trend, exploration, nominal, whose
\* condition holds, and the current algorithm is kept exactly by the first
\* and the last rule.
C25_RulesApplyInOrder ==
    [][ last_decision' # last_decision
            => LET decision == last_decision'
                   perf  == algorithm_performance[decision.pred_type][decision.current]
                   trend == TrendOf(decision.pred_type, decision.current)
                   holds ==
                     << perf.total_predictions < MinPredictionsBeforeSwitch,
                        perf.consecutive_wrong >= MaxConsecutiveErrors,
                        RLess(perf.confidence_score, Rat(4, 10)),
                        RLess(perf.recent_success_rate, Rat(4, 10)),
                        Len(trend) >= 3 /\ StrictlyDeclining(trend),
                        force_exploration
                           \/ (/\ decision.draw_below
                               /\ perf.total_predictions > ExplorationThreshold),
                        TRUE >>
                   reasons ==
                     << "insufficient_data", "consecutive_wrong", "low_confidence",
                        "low_recent_success", "declining", "exploration", "nominal" >>
                   first == CHOOSE i \in 1..7 :
                               holds[i] /\ \A j \in 1..(i - 1) : ~holds[j]
               IN  /\ decision.reason.text = reasons[first]
                   /\ decision.algo = decision.current <=> first \in {1, 7} ]_vars

\* a decision on a record for which the conditions of rules 2, 3 and 4 all
\* hold, under forced exploration: the reason is that of rule 2
C25_Witness ==
    /\ last_decision # NoDecision
    /\ last_decision.reason.text = "consecutive_wrong"
    /\ force_exploration
    /\ LET perf == algorithm_performance[last_decision.pred_type][last_decision.current]
       IN  /\ RLess(perf.confidence_score, Rat(4, 10))
           /\ RLess(perf.recent_success_rate, Rat(4, 10))

\* C26: when rules 1 to 4 do not fire and the last 3 points of the trend
\* series of the current algorithm are strictly declining, whatever the older
\* points are, should_switch_algorithm returns another algorithm with the
\* reason "性能持续下降" (declining).
C26_RecentDeclineSwitches ==
    [][ last_decision' # last_decision
            => LET decision == last_decision'
                   perf  == algorithm_performance[decision.pred_type][decision.current]
                   trend == TrendOf(decision.pred_type, decision.current)
                   n     == Len(trend)
               IN  (/\ perf.total_predictions >= MinPredictionsBeforeSwitch
                    /\ perf.consecutive_wrong < MaxConsecutiveErrors
                    /\ ~RLess(perf.confidence_score, Rat(4, 10))
                    /\ ~RLess(perf.recent_success_rate, Rat(4, 10))
                    /\ n >= 3
                    /\ RLess(trend[n], trend[n - 1])
                    /\ RLess(trend[n - 1], trend[n - 2]))
                       => /\ decision.algo # decision.current
                          /\ decision.reason.text = "declining" ]_vars

\* C27: when rules 1 to 5 do not fire, should_switch_algorithm returns
\* another algorithm with the reason "算法探索" (exploration) if
\* force_exploration is set, and keeps the current algorithm with the reason
\* "算法运行正常" (nominal) if the flag is clear and the current algorithm has
\* at most 10 total_predictions, whatever the random draw.
C27_ExplorationNeedsFlagOrData ==
    [][ last_decision' # last_decision
            => LET decision == last_decision'
                   perf  == algorithm_performance[decision.pred_type][decision.current]
                   trend == TrendOf(decision.pred_type, decision.current)
               IN  (/\ perf.total_predictions >= MinPredictionsBeforeSwitch
                    /\ perf.consecutive_wrong < MaxConsecutiveErrors
                    /\ ~RLess(perf.confidence_score, Rat(4, 10))
                    /\ ~RLess(perf.recent_success_rate, Rat(4, 10))
                    /\ ~(Len(trend) >= 3 /\ StrictlyDeclining(trend)))
                       => /\ force_exploration
                             => /\ decision.algo # decision.current
                                /\ decision.reason.text = "exploration"
                          /\ (/\ ~force_exploration
                              /\ perf.total_predictions <= ExplorationThreshold)
                             => /\ decision.algo = decision.current
                                /\ decision.reason.text = "nominal" ]_vars

\* the draw was below the exploration probability and the current algorithm
\* was kept, on a record of 5 to 10 outcomes
C27_Witness ==
    /\ last_decision # NoDecision
    /\ last_decision.draw_below
    /\ last_decision.reason.text = "nominal"
    /\ last_decision.total >= MinPredictionsBeforeSwitch
    /\ last_decision.total <= ExplorationThreshold
    /\ last_decision.algo = last_decision.current

\* C28: the algorithm that _select_next_algorithm returns (the algorithm of
\* every decision that switches) is never the current one: it is the one of
\* the two others with the higher confidence_score, the lower id on a tie.
C28_SelectNextIsBestOther ==
    (/\ last_decision # NoDecision
     /\ last_decision.reason.text \notin {"insufficient_data", "nominal"})
        => LET perf   == algorithm_performance[last_decision.pred_type]
               chosen == last_decision.algo
               others == Algorithms \ {last_decision.current}
           IN  /\ chosen \in others
               /\ \A b \in others :
                     /\ RLeq(ConfidenceOf(perf, b), ConfidenceOf(perf, chosen))
                     /\ ConfidenceOf(perf, b) = ConfidenceOf(perf, chosen)
                           => chosen <= b

\* from algorithm 2, algorithm 3 was chosen over algorithm 1 for its score
C28_Witness ==
    /\ last_decision # NoDecision
    /\ last_decision.current = 2
    /\ last_decision.algo = 3
    /\ RLess(ConfidenceOf(algorithm_performance[last_decision.pred_type], 1),
             ConfidenceOf(algorithm_performance[last_decision.pred_type], 3))

(***************************************************************************)
(* SpecLoad: the predictor is constructed over a stored snapshot that any  *)
(* writer may have left in algorithm_performance_details, forecasts and    *)
(* switch decisions follow, and the process may restart.                   *)
(***************************************************************************)
StoredIds == 0..MaxStoredId

MutLoadCurrentDefault(store, pred_type) == 1

\* self.current_algorithms[pred_type] = db_perf['current_algorithm']
LoadCurrent(store, pred_type) == store[pred_type].current_algorithm

\* the records of the keys that int() maps into [1, 2, 3]; other keys are skipped
LoadPerf(store, pred_type) ==
    [a \in Algorithms |->
        IF KeyOf(a) \in DOMAIN store[pred_type].algorithms
        THEN store[pred_type].algorithms[KeyOf(a)]
        ELSE DefaultPerf]

\* a snapshot of one prediction type as a writer may have left it
StoredSnapshot(id, stream, keys) ==
    [ current_algorithm |-> id,
      algorithms |-> [k \in keys |->
                        IF k = "1" THEN PerfAfter(DefaultPerf, stream) ELSE DefaultPerf] ]

InitLoad ==
    /\ InitMemory
    /\ InitStore
    /\ algorithm_trends = NoTrends
    /\ \E id \in StoredIds, stream \in InitStreams,
          keys \in {AlgorithmKeys, {"1", "2"}, AlgorithmKeys \cup {"4"}} :
          perf_store = [c \in Categories |-> StoredSnapshot(id, stream, keys)]
    /\ current_algorithms = [c \in Categories |-> LoadCurrent(perf_store, c)]
    /\ algorithm_performance = [c \in Categories |-> LoadPerf(perf_store, c)]
    /\ rec_target = <<"single_double", 1>>

\* PredictorModel.__init__ in a new process: the defaults, then
\* _load_algorithm_performance; its closing save_algorithm_performance reads
\* last_save_time before __init__ has set it, the AttributeError is caught by
\* the handler of the load, and the store is not written
Restart ==
    /\ current_algorithms' = [c \in Categories |-> LoadCurrent(perf_store, c)]
    /\ algorithm_performance' = [c \in Categories |-> LoadPerf(perf_store, c)]
    /\ last_used_algorithms' = [c \in Categories |-> [q \in Qihaos |-> 0]]
    /\ switch_counters' = [c \in Categories |-> 0]
    /\ algorithm_trends' = NoTrends
    /\ algorithm_switch_history' = [c \in Categories |-> <<>>]
    /\ forced_exploration_done' = [c \in Categories |-> FALSE]
    /\ force_exploration' = FALSE
    /\ save_due' = FALSE
    /\ poll_pc' = "idle"
    /\ UNCHANGED << save_ghosts, learner_vars, db_vars, perf_store, forecast_ghosts, last_recorded, record_ghosts >>

NextLoad ==
    \/ Restart
    \/ \E c \in Categories : Forecast(c)

SpecLoad == InitLoad /\ [][NextLoad]_vars

\* C10: in every reachable state, the state right after loading a stored
\* snapshot included, the current algorithm of every prediction type is in
\* {1, 2, 3}, and so is every id that the switch decision returns to a
\* forecast.
C10_AlgorithmIdsInRange ==
    /\ \A c \in Categories : current_algorithms[c] \in Algorithms
    /\ \A c \in Categories :
          last_forecast[c].qihao # 0 => last_forecast[c].to_algo \in Algorithms


\* C15: when the forecasting function fails in an uncached forecast (the check
\* counter advances and the result is None), the forecast returns None and
\* the prediction cache is left as it was, with no row for that type and period.
C15_FailedForecastWritesNoCache ==
    [][ \A c \in Categories :
            (switch_counters'[c] # switch_counters[c]
                /\ last_forecast'[c].result = <<>>)
                => /\ prediction_cache' = prediction_cache
                   /\ prediction_cache'[c][last_forecast'[c].qihao] = NoRow
                   /\ predictions' = predictions ]_vars

C15_Witness ==
    \E c \in Categories :
        /\ last_forecast[c].qihao # 0
        /\ ~last_forecast[c].cache_hit
        /\ last_forecast[c].result = <<>>
        /\ switch_counters[c] > 0
        /\ prediction_cache[c][last_forecast[c].qihao] = NoRow

\* C16: when the forecasting function fails during a forecast (the check
\* counter advances and the result is None), the current algorithm of the
\* category after the call equals the one before the call.
C16_FailedForecastKeepsCurrent ==
    [][ \A c \in Categories :
            (switch_counters'[c] # switch_counters[c]
                /\ last_forecast'[c].result = <<>>)
                => current_algorithms'[c] = current_algorithms[c] ]_vars

TrendWindow == 5
\* switch_config['performance_memory']
PerformanceMemoryLength == 10
\* select_next_algorithm keeps the last 50 switch records
SwitchHistoryLimit == 50
\* select_next_algorithm takes the best algorithm from 3 consecutive errors on
SelectConsecutiveWrong == 3
\* the forced exploration of select_next_algorithm needs more than 10 records
ForcedExplorationMinPredictions == 10

\* switch records appended in one behaviour of SpecExplore
MaxSwitchEvents == 2

RDiv(a, b) == Rat(a[1] * b[2], a[2] * b[1])
RNeg(a) == <<-a[1], a[2]>>

\* performance_memory[pred_type][algo_num]: update_algorithm_trends appends
\* the same value to the trend and to the memory and keeps the last 10 of the
\* memory, so the memory is the tail of the trend
PerformanceMemory(trend) ==
    IF Len(trend) > PerformanceMemoryLength
    THEN SubSeq(trend, Len(trend) - PerformanceMemoryLength + 1, Len(trend))
    ELSE trend

\* sum of weight(i) * value(i) with weight(i) = decay ** (len(memory) - i - 1),
\* decay = 0.9; value(i) is 1 when unit (the total weight)
RECURSIVE DecayedSum(_, _)
DecayedSum(memory, unit) ==
    IF memory = <<>> THEN <<0, 1>>
    ELSE RAdd(RMul(DecayedSum(SubSeq(memory, 1, Len(memory) - 1), unit), Rat(9, 10)),
              IF unit THEN <<1, 1>> ELSE memory[Len(memory)])

\* _calculate_memory_bonus
CalculateMemoryBonus(memory) ==
    IF memory = <<>> THEN <<0, 1>>
    ELSE RMul(RDiv(DecayedSum(memory, FALSE), DecayedSum(memory, TRUE)), Rat(1, 10))

\* _analyze_performance_trend: np.cov(x, y)[0, 1] / np.var(x) over the last
\* trend_window values, x = 0..4: cov divides by 4, var is 2
AnalyzePerformanceTrend(trend) ==
    IF Len(trend) < TrendWindow
    THEN [is_declining |-> FALSE, trend_value |-> <<0, 1>>]
    ELSE LET y == SubSeq(trend, Len(trend) - TrendWindow + 1, Len(trend))
             cov == RDiv(RAdd(RAdd(RMul(Rat(-2, 1), y[1]), RNeg(y[2])),
                              RAdd(y[4], RMul(Rat(2, 1), y[5]))),
                         Rat(4, 1))
             slope == RDiv(cov, Rat(2, 1))
         IN  [is_declining |-> RLess(slope, Rat(-1, 100)), trend_value |-> slope]

\* the score of _find_best_algorithm with dynamic_weights 0.4 / 0.4 / 0.2
AlgorithmScore(perf, trend) ==
    RAdd(RAdd(RAdd(RMul(perf.confidence_score, Rat(4, 10)),
                   RMul(perf.recent_success_rate, Rat(4, 10))),
              RMul(perf.success_rate, Rat(2, 10))),
         CalculateMemoryBonus(PerformanceMemory(trend)))

\* _find_best_algorithm: the first of 1, 2, 3 whose score no other exceeds
FindBestAlgorithm(perf_data, trends) ==
    CHOOSE a \in Algorithms :
        /\ \A b \in Algorithms :
              RLeq(AlgorithmScore(perf_data[b], trends[b]),
                   AlgorithmScore(perf_data[a], trends[a]))
        /\ \A b \in Algorithms :
              b < a => RLess(AlgorithmScore(perf_data[b], trends[b]),
                             AlgorithmScore(perf_data[a], trends[a]))

MutForcedIgnoresFlag(current_algo, total, done) ==
    current_algo = 1 /\ total > ForcedExplorationMinPredictions

\* the condition of the forced exploration at the end of
\* select_next_algorithm; done is forced_exploration_done.get(pred_type, False)
ForcedExplorationFires(current_algo, total, done) ==
    /\ current_algo = 1
    /\ total > ForcedExplorationMinPredictions
    /\ ~done

MutPushSwitchRecordDropsNewest(history, switch_record) ==
    IF Len(history) + 1 > SwitchHistoryLimit THEN history
    ELSE Append(history, switch_record)

\* algorithm_switch_history[pred_type].append(switch_record); pop(0) when
\* longer than 50
PushSwitchRecord(history, switch_record) ==
    LET appended == Append(history, switch_record)
    IN  IF Len(appended) > SwitchHistoryLimit THEN Tail(appended) ELSE appended

\* the switch events in the histories; SpecExplore, SpecOneShot and SpecRearm
\* call select_next_algorithm while they are fewer than MaxSwitchEvents
SumSwitchEvents ==
    Len(algorithm_switch_history["single_double"])
        + Len(algorithm_switch_history["big_small"])
        + Len(algorithm_switch_history["kill_group"])
        + Len(algorithm_switch_history["double_group"])

\* select_next_algorithm(pred_type, current_algorithms[pred_type],
\* algorithm_performance): drawn_algo is the outcome of random.choices over
\* the other algorithms (every weight is positive), draw_explore the outcome
\* of random.random() < the dynamic exploration rate (between 0.02 and 0.2),
\* forced_algo the outcome of random.choice([2, 3]).  rotation_counter is
\* written here and read nowhere.
select_next_algorithm(pred_type, drawn_algo, draw_explore, forced_algo) ==
    LET current_algo == current_algorithms[pred_type]
        perf_data    == algorithm_performance[pred_type]
        current_perf == perf_data[current_algo]
        trend_result == AnalyzePerformanceTrend(algorithm_trends[pred_type][current_algo])
        best_algo    == FindBestAlgorithm(perf_data, algorithm_trends[pred_type])
        by_errors    == current_perf.consecutive_wrong >= SelectConsecutiveWrong
        next_algo    == IF by_errors \/ trend_result.is_declining
                        THEN best_algo ELSE drawn_algo
        switch_reason ==
            IF by_errors
            THEN Reason("consecutive_failures", current_perf.consecutive_wrong, NoValue)
            ELSE IF trend_result.is_declining
            THEN Reason("declining_trend", 0, trend_result.trend_value)
            ELSE IF RLess(current_perf.confidence_score, Half)
            THEN Reason("below_threshold", 0, current_perf.confidence_score)
            ELSE IF draw_explore
            THEN Reason("smart_exploration", 0, NoValue)
            ELSE Reason("better_algorithm", 0,
                        RSub(perf_data[best_algo].confidence_score,
                             current_perf.confidence_score))
        switch_record == [ from_algo |-> current_algo, to_algo |-> next_algo,
                           reason |-> switch_reason ]
        forced == ForcedExplorationFires(current_algo, current_perf.total_predictions,
                                         forced_exploration_done[pred_type])
    IN  /\ current_algo \in Algorithms
        /\ drawn_algo # current_algo
        /\ algorithm_performance' =
              [algorithm_performance EXCEPT ![pred_type][next_algo].last_switch_time =
                   current_perf.total_predictions]
        /\ algorithm_switch_history' =
              [algorithm_switch_history EXCEPT ![pred_type] =
                   PushSwitchRecord(@, switch_record)]
        /\ forced_exploration_done' =
              IF forced THEN [forced_exploration_done EXCEPT ![pred_type] = TRUE]
              ELSE forced_exploration_done
        /\ last_decision' =
              [ pred_type |-> pred_type, current |-> current_algo,
                total |-> current_perf.total_predictions,
                consecutive_wrong |-> current_perf.consecutive_wrong,
                algo |-> IF forced THEN forced_algo ELSE next_algo,
                forced |-> forced,
                reason |-> switch_reason ]
        /\ UNCHANGED << save_ghosts, learner_vars, current_algorithms, last_used_algorithms, switch_counters,
                        algorithm_trends, force_exploration, db_vars, perf_store,
                        save_due, poll_pc, forecast_ghosts, last_recorded, fed,
                        rec_target >>

InitExplore ==
    /\ last_used_algorithms = [c \in Categories |-> [q \in Qihaos |-> 0]]
    /\ switch_counters =
          [c \in Categories |-> ForcedExplorationResetChecks - MaxForecasts]
    /\ algorithm_switch_history = [c \in Categories |-> <<>>]
    /\ forced_exploration_done = [c \in Categories |-> FALSE]
    /\ force_exploration = FALSE
    /\ save_due = FALSE
    /\ last_forecast = [c \in Categories |-> NoForecast]
    /\ last_recorded = [c \in Categories |-> NoRecorded]
    /\ served = [c \in Categories |-> [q \in Qihaos |-> {}]]
    /\ recomputed = [c \in Categories |-> [q \in Qihaos |-> FALSE]]
    /\ fed = <<>>
    /\ last_decision = NoDecision
    /\ InitStore
    /\ algorithm_trends = NoTrends
    /\ current_algorithms = [c \in Categories |-> 1]
    /\ \E stream \in InitStreams :
          algorithm_performance =
              [c \in Categories |->
                 [a \in Algorithms |->
                    IF a = 1 THEN PerfAfter(DefaultPerf, stream) ELSE DefaultPerf]]
    /\ perf_store = SnapshotAll(current_algorithms, algorithm_performance)
    /\ rec_target = <<"single_double", 1>>

\* the checks made since the initial state, over all types
ChecksSinceInit ==
    LET since(c) == (switch_counters[c] + MaxForecasts) % ForcedExplorationResetChecks
    IN  since("single_double") + since("big_small") + since("kill_group")
            + since("double_group")

\* send_prediction, at most MaxForecasts uncached ones in a behaviour
ForecastTowardsRearm(c) ==
    \E predict_ok \in BOOLEAN, draw_below \in BOOLEAN :
        LET next   == latest_qihao + 1
            cached == prediction_cache[c][next]
        IN  IF cached # NoRow
            THEN ForecastCached(c, next, cached)
            ELSE /\ ChecksSinceInit < MaxForecasts
                 /\ CalculatePrediction(c, next, predict_ok, draw_below)

NextExplore ==
    \/ \E c \in Categories : ForecastTowardsRearm(c)
    \/ \E c \in Categories, drawn_algo \in Algorithms, draw_explore \in BOOLEAN,
          forced_algo \in {2, 3} :
          /\ SumSwitchEvents < MaxSwitchEvents
          /\ select_next_algorithm(c, drawn_algo, draw_explore, forced_algo)

SpecExplore == InitExplore /\ [][NextExplore]_vars

\* C12: a forecast on one category (its check counter or its last forecast
\* changes) leaves every other category's performance records, trend series,
\* current selection, switch history and forced-exploration flag unchanged.
C12_CategoriesIndependent ==
    [][ \A c \in Categories :
            (switch_counters'[c] # switch_counters[c]
                \/ last_forecast'[c] # last_forecast[c])
                => \A d \in Categories \ {c} :
                      /\ algorithm_performance'[d] = algorithm_performance[d]
                      /\ algorithm_trends'[d] = algorithm_trends[d]
                      /\ current_algorithms'[d] = current_algorithms[d]
                      /\ algorithm_switch_history'[d] = algorithm_switch_history[d]
                      /\ forced_exploration_done'[d] = forced_exploration_done[d]
      ]_vars


\* reset_forced_exploration(), called on demand
ResetForcedExploration ==
    /\ forced_exploration_done' = [c \in Categories |-> FALSE]
    /\ UNCHANGED << save_ghosts, learner_vars, predictor_vars, algorithm_trends,
                    algorithm_switch_history, force_exploration, db_vars,
                    perf_store, save_due, poll_pc, forecast_ghosts, last_recorded,
                    record_ghosts >>

\* the state select_next_algorithm is called in: any current algorithm, the
\* three algorithms having been fed the same stream of outcomes
InitOneShot ==
    /\ last_used_algorithms = [c \in Categories |-> [q \in Qihaos |-> 0]]
    /\ switch_counters = [c \in Categories |-> 0]
    /\ algorithm_switch_history = [c \in Categories |-> <<>>]
    /\ forced_exploration_done = [c \in Categories |-> FALSE]
    /\ force_exploration = FALSE
    /\ save_due = FALSE
    /\ last_forecast = [c \in Categories |-> NoForecast]
    /\ last_recorded = [c \in Categories |-> NoRecorded]
    /\ served = [c \in Categories |-> [q \in Qihaos |-> {}]]
    /\ recomputed = [c \in Categories |-> [q \in Qihaos |-> FALSE]]
    /\ fed = <<>>
    /\ last_decision = NoDecision
    /\ InitStore
    /\ algorithm_trends = NoTrends
    /\ \E cur \in Algorithms : current_algorithms = [c \in Categories |-> cur]
    /\ \E stream \in InitStreams :
          algorithm_performance =
              [c \in Categories |->
                 [a \in Algorithms |-> PerfAfter(DefaultPerf, stream)]]
    /\ perf_store = SnapshotAll(current_algorithms, algorithm_performance)
    /\ rec_target = <<"single_double", 1>>

\* select_next_algorithm and reset_forced_exploration called directly
SpecOneShot ==
    /\ InitOneShot
    /\ [][ \/ ResetForcedExploration
               \/ \E c \in Categories, drawn_algo \in Algorithms,
                     draw_explore \in BOOLEAN, forced_algo \in {2, 3} :
                     /\ SumSwitchEvents < MaxSwitchEvents
                     /\ select_next_algorithm(c, drawn_algo, draw_explore, forced_algo)
             ]_vars

\* C30: the forced exploration fires only in a select_next_algorithm call
\* with current algorithm 1 whose total_predictions exceed 10 and with the
\* flag of the prediction type clear; the call sets the flag and returns 2 or
\* 3; a set flag is cleared by a reset only (which clears every flag), so it
\* fires at most once per prediction type between two resets.
C30_ForcedExplorationOneShot ==
    [][ /\ (last_decision' # last_decision /\ last_decision'.forced)
            => LET c == last_decision'.pred_type
               IN  /\ ~forced_exploration_done[c]
                   /\ forced_exploration_done'[c]
                   /\ last_decision'.current = 1
                   /\ algorithm_performance[c][1].total_predictions
                         > ForcedExplorationMinPredictions
                   /\ last_decision'.algo \in {2, 3}
        /\ \A c \in Categories :
              (forced_exploration_done[c] /\ ~forced_exploration_done'[c])
                  => /\ last_decision' = last_decision
                     /\ \A d \in Categories : ~forced_exploration_done'[d] ]_vars

\* the forced exploration fired for a second time on kill_group, after a reset
C30_Witness ==
    /\ last_decision # NoDecision
    /\ last_decision.pred_type = "kill_group"
    /\ last_decision.forced
    /\ Len(algorithm_switch_history["kill_group"]) = 2
    /\ forced_exploration_done["kill_group"]

\* C29: every switch record that select_next_algorithm appends has a
\* to_algo other than its from_algo, and its to_algo is the algorithm that
\* the same call returns, also when the forced exploration fires in the call.
C29_SwitchEventIsRealTransition ==
    [][ \A c \in Categories :
            algorithm_switch_history'[c] # algorithm_switch_history[c]
                => LET history == algorithm_switch_history'[c]
                       event   == history[Len(history)]
                   IN  /\ event.from_algo # event.to_algo
                       /\ event.to_algo = last_decision'.algo ]_vars

(***************************************************************************)
(* The executor thread.  check_lottery_update awaits verify_prediction in  *)
(* loop.run_in_executor, so update_algorithm_performance runs on a worker  *)
(* thread while the event loop keeps serving send_prediction; no lock      *)
(* guards algorithm_performance.  The update is modelled in the order of   *)
(* its statements, one step per group of statements (a thread switch may   *)
(* happen between any two of them); poll_pc is the worker's position:      *)
(*   "recent"     after the counters (lines 198-205)                       *)
(*   "rates"      after recent_results (lines 208-210)                     *)
(*   "confidence" after success_rate and recent_success_rate (213-218)     *)
(*   "trend"      after confidence_score (line 221)                        *)
(*   "idle"       after update_algorithm_trends and the save (229-234)     *)
(* rec_target is the record under update and fed the outcomes so far.      *)
(***************************************************************************)
\* calls of update_algorithm_performance on the worker in one behaviour
MaxThreadUpdates == 2

UpdateSteps == {"recent", "rates", "confidence", "trend"}

\* lines 198-205: total_predictions, correct_predictions and the counters
ThreadUpdateCounters(c, is_correct) ==
    LET perf     == algorithm_performance[c][1]
        counters == NextCounters(perf, is_correct)
    IN  /\ poll_pc = "idle"
        /\ Len(fed) < MaxThreadUpdates
        /\ algorithm_performance' =
              [algorithm_performance EXCEPT ![c][1] =
                   [ perf EXCEPT
                        !.total_predictions   = @ + 1,
                        !.correct_predictions = @ + (IF is_correct THEN 1 ELSE 0),
                        !.consecutive_correct = counters.consecutive_correct,
                        !.consecutive_wrong   = counters.consecutive_wrong ]]
        /\ rec_target' = <<c, 1>>
        /\ fed' = Append(fed, IF is_correct THEN 1 ELSE 0)
        /\ poll_pc' = "recent"
        /\ UNCHANGED << save_ghosts, learner_vars, current_algorithms, last_used_algorithms, switch_counters,
                        switcher_vars, db_vars, perf_store, save_due,
                        forecast_ghosts, last_recorded, last_decision >>

\* lines 208-210
ThreadUpdateRecent ==
    /\ poll_pc = "recent"
    /\ algorithm_performance' =
          [algorithm_performance EXCEPT ![rec_target[1]][rec_target[2]].recent_results =
               PushRecent(@, fed[Len(fed)])]
    /\ poll_pc' = "rates"
    /\ UNCHANGED << save_ghosts, learner_vars, current_algorithms, last_used_algorithms, switch_counters,
                    switcher_vars, db_vars, perf_store, save_due, forecast_ghosts,
                    last_recorded, record_ghosts >>

\* lines 213-218
ThreadUpdateRates ==
    LET perf   == algorithm_performance[rec_target[1]][rec_target[2]]
        recent == perf.recent_results
    IN  /\ poll_pc = "rates"
        /\ algorithm_performance' =
              [algorithm_performance EXCEPT ![rec_target[1]][rec_target[2]] =
                   [ perf EXCEPT
                        !.success_rate =
                            Rat(perf.correct_predictions, perf.total_predictions),
                        !.recent_success_rate =
                            IF Len(recent) > 0 THEN Rat(SumSeq(recent), Len(recent))
                            ELSE Half ]]
        /\ poll_pc' = "confidence"
        /\ UNCHANGED << save_ghosts, learner_vars, current_algorithms, last_used_algorithms, switch_counters,
                        switcher_vars, db_vars, perf_store, save_due,
                        forecast_ghosts, last_recorded, record_ghosts >>

\* line 221
ThreadUpdateConfidence ==
    /\ poll_pc = "confidence"
    /\ algorithm_performance' =
          [algorithm_performance EXCEPT ![rec_target[1]][rec_target[2]].confidence_score =
               CalculateConfidenceScore(algorithm_performance[rec_target[1]][rec_target[2]])]
    /\ poll_pc' = "trend"
    /\ UNCHANGED << save_ghosts, learner_vars, current_algorithms, last_used_algorithms, switch_counters,
                    switcher_vars, db_vars, perf_store, save_due, forecast_ghosts,
                    last_recorded, record_ghosts >>

\* lines 229-234: update_algorithm_trends, save_algorithm_performance
ThreadUpdateTrend ==
    /\ poll_pc = "trend"
    /\ algorithm_trends' =
          [algorithm_trends EXCEPT ![rec_target[1]][rec_target[2]] =
               PushTrend(@, algorithm_performance[rec_target[1]][rec_target[2]]
                                .recent_success_rate)]
    /\ perf_store' = IF save_due
                     THEN SnapshotAll(current_algorithms, algorithm_performance)
                     ELSE perf_store
    /\ save_due' = FALSE
    /\ poll_pc' = "idle"
    /\ UNCHANGED << save_ghosts, learner_vars, predictor_vars, algorithm_switch_history,
                    forced_exploration_done, force_exploration, db_vars,
                    forecast_ghosts, last_recorded, record_ghosts >>

NextThreads ==
    \/ \E c \in Categories : Forecast(c)
    \/ \E c \in Categories, is_correct \in BOOLEAN : ThreadUpdateCounters(c, is_correct)
    \/ ThreadUpdateRecent
    \/ ThreadUpdateRates
    \/ ThreadUpdateConfidence
    \/ ThreadUpdateTrend

SpecThreads == Init /\ [][NextThreads]_vars

\* the worker is between two statements of update_algorithm_performance on a
\* record of pred_type
UpdateInProgress(pred_type) == poll_pc \in UpdateSteps /\ rec_target[1] = pred_type

\* C13: no uncached forecast of a category (its check counter advances: the
\* switch decision reads the category's record and current selection) happens
\* while the worker's update of a record of the same category is in progress.
C13_NoForecastDuringUpdate ==
    [][ \A c \in Categories :
            switch_counters'[c] # switch_counters[c] => ~UpdateInProgress(c) ]_vars


(***************************************************************************)
(* ReinforcementLearner: the Q-table, its update and its pickle file.      *)
(* Q-values and rewards are fixed-point numbers, QScale units to 1.0; a    *)
(* product with learning_rate or discount_factor is rounded down to a      *)
(* unit.  A row of the table is NoRow (the state is no key of the dict) or *)
(* the values of algorithms 1, 2, 3.                                       *)
(***************************************************************************)
\* update_q_values calls in one behaviour of SpecLearnerCrash
MaxCrashUpdates == 2

\* {1: 0.5, 2: 0.5, 3: 0.5}
InitialRow == [a \in Algorithms |-> QScale \div 2]

Rewards == {-2 * QScale, 2 * QScale}

\* max(self.q_table[next_state].values())
MaxQ(row) == CHOOSE q \in {row[a] : a \in Algorithms} : \A a \in Algorithms : row[a] <= q

\* the row of state, created when missing
WithRow(table, state) ==
    IF table[state] = NoRow THEN [table EXCEPT ![state] = InitialRow] ELSE table

\* new_q = current_q + learning_rate * (reward + discount_factor * max_next_q
\*                                      - current_q)
NewQ(current_q, reward, max_next_q) ==
    current_q + (LearningRatePercent
                    * (reward + (DiscountPercent * max_next_q) \div 100 - current_q))
                \div 100

MutUpdateQValuesOwnRowMax(table, state, action, reward, next_state) ==
    LET rows == WithRow(WithRow(table, state), next_state)
    IN  [rows EXCEPT ![state][action] =
            NewQ(rows[state][action], reward, MaxQ(rows[state]))]

\* update_q_values: the table after the update
UpdateQValues(table, state, action, reward, next_state) ==
    LET rows == WithRow(WithRow(table, state), next_state)
    IN  [rows EXCEPT ![state][action] =
            NewQ(rows[state][action], reward, MaxQ(rows[next_state]))]

\* what pickle.load of the file gives _load_or_init_model: the saved table, or
\* the empty table when the file is absent or pickle.load raises
LoadOrInitModel(file) ==
    IF file.kind = "pickle" THEN file.q_table ELSE [s \in LearnerStates |-> NoRow]

\* save_model up to open(self.model_path, 'wb'), which truncates the file
SaveModelOpen ==
    /\ learner_pc = "idle"
    /\ model_file' = [kind |-> "truncated"]
    /\ learner_pc' = "dumping"
    /\ UNCHANGED << save_ghosts, q_table, q_updates, learner_params, learner_log, predictor_vars, switcher_vars,
                    db_vars, perf_store, save_due, poll_pc, forecast_ghosts,
                    last_recorded, record_ghosts >>

\* pickle.dump(model_data, f) and the close of the file
SaveModelDump ==
    /\ learner_pc = "dumping"
    /\ model_file' = [kind |-> "pickle", q_table |-> q_table]
    /\ learner_pc' = "idle"
    /\ UNCHANGED << save_ghosts, q_table, q_updates, learner_params, learner_log, predictor_vars, switcher_vars,
                    db_vars, perf_store, save_due, poll_pc, forecast_ghosts,
                    last_recorded, record_ghosts >>

\* update_q_values(state, action, reward, next_state); draw_save is the
\* outcome of random.random() < 0.1, after which save_model opens the file
LearnerUpdate(state, action, reward, next_state, draw_save) ==
    /\ learner_pc = "idle"
    /\ q_table' = UpdateQValues(q_table, state, action, reward, next_state)
    /\ q_updates' = [q_updates EXCEPT ![action] = @ + 1]
    /\ learner_log' = [learner_log EXCEPT !.steps = @ + 1, !.selected = 0,
                                          !.call = <<state, action, reward, next_state>>]
    /\ model_file' = IF draw_save THEN [kind |-> "truncated"] ELSE model_file
    /\ learner_pc' = IF draw_save THEN "dumping" ELSE "idle"
    /\ UNCHANGED << save_ghosts, learner_params, predictor_vars, switcher_vars, db_vars,
                    perf_store, save_due, poll_pc, forecast_ghosts, last_recorded,
                    record_ghosts >>

\* the process dies and is started again: ReinforcementLearner.__init__ runs
\* _load_or_init_model on whatever the file holds
CrashAndRestart ==
    /\ q_table' = LoadOrInitModel(model_file)
    /\ learner_pc' = "idle"
    /\ learner_log' = [learner_log EXCEPT !.selected = 0]
    /\ UNCHANGED << save_ghosts, model_file, q_updates, learner_params, predictor_vars,
                    switcher_vars, db_vars, perf_store, save_due, poll_pc,
                    forecast_ghosts, last_recorded, record_ghosts >>

SumQUpdates == q_updates[1] + q_updates[2] + q_updates[3]

\* update_q_values, at most MaxCrashUpdates calls in a behaviour
UpdateBeforeCrash ==
    \E state \in LearnerStates, action \in Algorithms, reward \in Rewards,
       next_state \in LearnerStates, draw_save \in BOOLEAN :
       /\ SumQUpdates < MaxCrashUpdates
       /\ LearnerUpdate(state, action, reward, next_state, draw_save)

NextLearnerCrash ==
    \/ UpdateBeforeCrash
    \/ SaveModelOpen
    \/ SaveModelDump
    \/ CrashAndRestart

SpecLearnerCrash == Init /\ [][NextLearnerCrash]_vars

\* C14: whenever no write is in progress (in particular after a crash during
\* a write and the restart), the model file is absent (never written) or holds
\* a complete snapshot; it is never left truncated.
C14_CrashLeavesCompleteSnapshot ==
    learner_pc = "idle" => model_file.kind # "truncated"

\* C32: update_q_values(state, action, reward, next_state) leaves the table
\* with a row for state and for next_state, a missing one created with 0.5
\* for algorithms 1, 2, 3; the entry of (state, action) becomes
\* q + learning_rate * (reward + discount_factor * max(row of next_state) - q),
\* q and the maximum being read after the rows were created, and every other
\* entry of the table is the one it was (0.5 in a created row).
C32_UpdateIsOneStepQLearning ==
    [][ learner_log'.steps # learner_log.steps
            => LET state      == learner_log'.call[1]
                   action     == learner_log'.call[2]
                   reward     == learner_log'.call[3]
                   next_state == learner_log'.call[4]
                   before(x, a) == IF q_table[x] = NoRow THEN QScale \div 2
                                   ELSE q_table[x][a]
                   max_next == CHOOSE q \in {before(next_state, a) : a \in Algorithms} :
                                   \A a \in Algorithms : before(next_state, a) <= q
                   target == reward + (DiscountPercent * max_next) \div 100
                                 - before(state, action)
               IN  /\ \A x \in LearnerStates \ {state, next_state} :
                         q_table'[x] = q_table[x]
                   /\ \A x \in {state, next_state} :
                         /\ q_table'[x] # NoRow
                         /\ DOMAIN q_table'[x] = Algorithms
                         /\ \A a \in Algorithms :
                               q_table'[x][a] =
                                   IF x = state /\ a = action
                                   THEN before(state, action)
                                            + (LearningRatePercent * target) \div 100
                                   ELSE before(x, a) ]_vars

\* a second update of a row: state "s" had its row before the call, the row
\* of next_state "t" was created by it, and the entry of ("s", 2) was moved
C32_Witness ==
    /\ learner_log.steps = 2
    /\ learner_log.call[1] = "s"
    /\ learner_log.call[2] = 2
    /\ learner_log.call[4] = "t"
    /\ q_table["t"] = InitialRow
    /\ q_table["s"][1] # QScale \div 2
    /\ q_table["s"][2] # QScale \div 2


(***************************************************************************)
(* The periodic save and its failures.  save_due is set when save_interval *)
(* has elapsed since last_save_time; the save at the end of the next       *)
(* record call then writes one row per prediction type and sets            *)
(* last_save_time, whether the rows were written or not.  last_save        *)
(* remembers whether the last record call attempted the save, which rows   *)
(* failed in the last attempt and whether the attempt before it had        *)
(* failed.                                                                 *)
(***************************************************************************)
\* record calls in one behaviour of SpecSave
MaxSaveRecords == 3

\* the sets of prediction types whose write fails in one save
FailureSets ==
    { {}, {"big_small"}, {"single_double", "kill_group"}, Categories }

\* time passes: (now - last_save_time) reaches save_interval
SaveIntervalElapses ==
    /\ ~save_due
    /\ save_due' = TRUE
    /\ UNCHANGED << learner_vars, save_ghosts, predictor_vars, switcher_vars,
                    db_vars, perf_store, poll_pc, forecast_ghosts, last_recorded,
                    record_ghosts >>

\* update_algorithm_performance on rec_target with its trailing save
RecordWithSave(is_correct, failed) ==
    LET bit    == IF is_correct THEN 1 ELSE 0
        perf   == [algorithm_performance EXCEPT ![rec_target[1]][rec_target[2]] =
                      UpdatePerf(@, is_correct)]
    IN  /\ Len(fed) < MaxSaveRecords
        /\ save_due \/ failed = {}
        /\ algorithm_performance' = perf
        /\ algorithm_trends' =
              [algorithm_trends EXCEPT ![rec_target[1]][rec_target[2]] =
                   PushTrend(@, perf[rec_target[1]][rec_target[2]].recent_success_rate)]
        /\ perf_store' =
              IF save_due
              THEN SaveAlgorithmPerformance(perf_store, current_algorithms, perf, failed)
              ELSE perf_store
        /\ save_due' = FALSE
        /\ fed' = Append(fed, bit)
        /\ last_save' =
              IF save_due
              THEN [ attempted |-> TRUE, failed |-> failed,
                     retried |-> last_save.failed # {} ]
              ELSE [ last_save EXCEPT !.attempted = FALSE ]
        /\ UNCHANGED << learner_vars, current_algorithms, last_used_algorithms,
                        switch_counters, algorithm_switch_history,
                        forced_exploration_done, force_exploration, db_vars,
                        poll_pc, forecast_ghosts, last_recorded, rec_target,
                        last_decision >>

NextSave ==
    \/ SaveIntervalElapses
    \/ \E is_correct \in BOOLEAN, failed \in FailureSets :
          RecordWithSave(is_correct, failed)

SpecSave == InitRecord /\ [][NextSave]_vars

\* C17: a record call whose save fails for some prediction types returns
\* normally with the in-memory record updated as by any record call and the
\* current selection untouched; the rows that failed keep their old content,
\* the others are written; and every record call made once the interval has
\* elapsed again attempts the write, also after a failed attempt.
C17_SaveFailureIsHarmless ==
    [][ fed' # fed =>
            /\ current_algorithms' = current_algorithms
            /\ algorithm_performance' =
                  [algorithm_performance EXCEPT ![rec_target[1]][rec_target[2]] =
                       UpdatePerf(@, fed'[Len(fed')] = 1)]
            /\ save_due => last_save'.attempted
            /\ last_save'.attempted =>
                  \A c \in Categories :
                      perf_store'[c] =
                          IF c \in last_save'.failed THEN perf_store[c]
                          ELSE Snapshot(current_algorithms', algorithm_performance', c)
      ]_vars

C17_Witness ==
    /\ last_save.attempted
    /\ last_save.retried
    /\ last_save.failed = {}
    /\ Len(fed) >= 2
    /\ perf_store = SnapshotAll(current_algorithms, algorithm_performance)


(***************************************************************************)
(* The persistence round trip: save_algorithm_performance(force=True),     *)
(* then a fresh PredictorModel that loads what was saved.  SpecRoundTrip   *)
(* is Spec with one such round trip closing the behaviour at any point.    *)
(***************************************************************************)
SaveAndReload ==
    LET saved == SaveAlgorithmPerformance(perf_store, current_algorithms,
                                          algorithm_performance, {})
    IN  /\ ~last_save.attempted
        /\ perf_store' = saved
        /\ current_algorithms' = [c \in Categories |-> LoadCurrent(saved, c)]
        /\ algorithm_performance' = [c \in Categories |-> LoadPerf(saved, c)]
        /\ last_used_algorithms' = [c \in Categories |-> [q \in Qihaos |-> 0]]
        /\ switch_counters' = [c \in Categories |-> 0]
        /\ algorithm_trends' = NoTrends
        /\ algorithm_switch_history' = [c \in Categories |-> <<>>]
        /\ forced_exploration_done' = [c \in Categories |-> FALSE]
        /\ force_exploration' = FALSE
        /\ save_due' = FALSE
        /\ poll_pc' = "idle"
        /\ last_save' = [attempted |-> TRUE, failed |-> {}, retried |-> FALSE]
        /\ UNCHANGED << learner_vars, db_vars, forecast_ghosts, last_recorded,
                        record_ghosts >>

\* the steps of Spec until the round trip has been made
BeforeRoundTrip == ~last_save.attempted /\ Next

NextRoundTrip ==
    \/ BeforeRoundTrip
    \/ SaveAndReload

SpecRoundTrip == Init /\ [][NextRoundTrip]_vars

\* C18: a forced save followed by the load of a fresh predictor restores the
\* current algorithm of every prediction type and every field of the record of
\* every (prediction type, algorithm), the algorithms being the integers 1..3.
C18_SaveLoadRoundTrip ==
    [][ (last_save'.attempted /\ ~last_save.attempted) =>
            /\ current_algorithms' = current_algorithms
            /\ algorithm_performance' = algorithm_performance
            /\ \A c \in Categories : DOMAIN algorithm_performance'[c] = Algorithms
      ]_vars

C18_Witness ==
    /\ last_save.attempted
    /\ \E c \in Categories :
          /\ current_algorithms[c] = 2
          /\ switch_counters[c] = 0
          /\ perf_store[c].current_algorithm = 2
          /\ algorithm_performance[c] = LoadPerf(perf_store, c)
          /\ algorithm_performance[c][1].total_predictions >= MinPredictionsBeforeSwitch
    /\ \E c \in Categories : last_recorded[c].qihao # 0


(***************************************************************************)
(* Learning on one state.  SpecLearner feeds update_q_values with the      *)
(* state "s" as state and next state, algorithm 2 rewarded +2, algorithm 1 *)
(* rewarded -2 and algorithm 3 rewarded +2 (what calculate_reward gives a  *)
(* correct forecast of confidence 1), one call per step, the calls coming  *)
(* in runs of RunLengths consecutive calls for the same algorithm, and     *)
(* asks select_algorithm("s") with exploration_rate = 0 between two runs   *)
(* (random.random() < 0 is never true).  learner_log.run is the algorithm  *)
(* of the run in progress and learner_log.left the calls of the run still  *)
(* to come.                                                                *)
(***************************************************************************)
\* runs of update_q_values calls in one behaviour of SpecLearner
MaxLearnerRuns == 3

RunLengths == {1, 100}

MutSelectAlgorithmLowest(table, state) ==
    LET row == WithRow(table, state)[state]
    IN  CHOOSE a \in Algorithms : \A b \in Algorithms : row[a] <= row[b]

MutSelectAlgorithmLastMax(table, state) ==
    LET row == WithRow(table, state)[state]
    IN  CHOOSE a \in Algorithms :
            /\ \A b \in Algorithms : row[b] <= row[a]
            /\ \A b \in Algorithms : b > a => row[b] < row[a]

\* select_algorithm without exploration: max(state_q_values.items(),
\* key=lambda x: x[1])[0], the first of 1, 2, 3 with the greatest Q-value
SelectAlgorithm(table, state) ==
    LET row == WithRow(table, state)[state]
    IN  CHOOSE a \in Algorithms :
            /\ \A b \in Algorithms : row[b] <= row[a]
            /\ \A b \in Algorithms : b < a => row[b] < row[a]

\* the reward of the stream for an update of algorithm action
RewardOf(action) == IF action = 1 THEN -2 * QScale ELSE 2 * QScale

\* update_q_values("s", action, RewardOf(action), "s"), the call that is
\* number left + 1 from the end of its run; draw_save as in LearnerUpdate
LearnerRunStep(action, runs, left, draw_save) ==
    /\ learner_pc = "idle"
    /\ q_table' = UpdateQValues(q_table, "s", action, RewardOf(action), "s")
    /\ q_updates' = [q_updates EXCEPT ![action] = @ + 1]
    /\ learner_log' = [learner_log EXCEPT !.steps = runs, !.selected = 0,
                                           !.run = action, !.left = left]
    /\ model_file' = IF draw_save THEN [kind |-> "truncated"] ELSE model_file
    /\ learner_pc' = IF draw_save THEN "dumping" ELSE "idle"
    /\ UNCHANGED << save_ghosts, learner_params, predictor_vars, switcher_vars, db_vars,
                    perf_store, save_due, poll_pc, forecast_ghosts, last_recorded,
                    record_ghosts >>

\* the first call of a run of n calls for one algorithm
LearnerRunStart ==
    \E action \in Algorithms, n \in RunLengths, draw_save \in BOOLEAN :
        /\ learner_log.left = 0
        /\ learner_log.steps < MaxLearnerRuns
        /\ n > 1 => ~draw_save
        /\ LearnerRunStep(action, learner_log.steps + 1, n - 1, draw_save)

\* the next call of the run in progress; only the last call of a run may
\* draw a save
LearnerRunContinue ==
    \E draw_save \in BOOLEAN :
        /\ learner_log.left > 0
        /\ learner_log.left > 1 => ~draw_save
        /\ LearnerRunStep(learner_log.run, learner_log.steps, learner_log.left - 1,
                          draw_save)

\* select_algorithm("s") with exploration_rate = 0; a missing row is created
LearnerSelect ==
    /\ learner_pc = "idle"
    /\ learner_log.left = 0
    /\ q_table' = WithRow(q_table, "s")
    /\ learner_log' = [learner_log EXCEPT !.selected = SelectAlgorithm(q_table, "s")]
    /\ UNCHANGED << save_ghosts, model_file, learner_pc, q_updates, learner_params, predictor_vars,
                    switcher_vars, db_vars, perf_store, save_due, poll_pc,
                    forecast_ghosts, last_recorded, record_ghosts >>

NextLearner ==
    \/ LearnerRunStart
    \/ LearnerRunContinue
    \/ SaveModelDump
    \/ LearnerSelect

SpecLearner == Init /\ [][NextLearner]_vars

\* C33: a select_algorithm(s) call that does not explore returns one of
\* 1, 2, 3 whose Q-value in the row of s is the greatest of the row, the
\* first of them in the order 1, 2, 3 the row was created in; when s has no
\* row the call creates it with 0.5 for 1, 2, 3 and returns 1; the Q-values
\* of an existing row are not changed by the call.
C33_SelectIsFirstArgmax ==
    [][ (learner_log.selected = 0 /\ learner_log'.selected # 0)
            => LET chosen == learner_log'.selected
                   row    == q_table'["s"]
               IN  /\ chosen \in Algorithms
                   /\ row # NoRow
                   /\ \A b \in Algorithms : row[b] <= row[chosen]
                   /\ \A b \in Algorithms : b < chosen => row[b] < row[chosen]
                   /\ IF q_table["s"] = NoRow
                      THEN /\ chosen = 1
                           /\ \A b \in Algorithms : 2 * row[b] = QScale
                      ELSE row = q_table["s"] ]_vars

\* a tie decided by the order of the row: algorithm 1 was punished, 2 and 3
\* still hold 0.5, and 2 is returned
C33_Witness ==
    /\ learner_log.selected = 2
    /\ q_table["s"] # NoRow
    /\ q_table["s"][2] = q_table["s"][3]
    /\ q_table["s"][1] < q_table["s"][2]

\* C20 as stated: from the empty Q-table, after at least 200 updates on the
\* state s (s also the next state) in which algorithm 2 is always rewarded
\* +2 and algorithm 1 always -2, select_algorithm(s) without exploration
\* returns 2, whatever the updates of algorithm 3 in the sequence.
C20_AnyStreamSelectsTwo ==
    (learner_log.selected # 0 /\ SumQUpdates >= 200)
        => learner_log.selected = 2

\* C20: from the empty Q-table, after at least 200 updates on the state s
\* (s also the next state), each of them an update of algorithm 2 rewarded
\* +2 or of algorithm 1 rewarded -2, select_algorithm(s) without exploration
\* returns 2.
C20_RewardedAlgorithmIsSelected ==
    (/\ learner_log.selected # 0
     /\ SumQUpdates >= 200
     /\ q_updates[3] = 0)
        => learner_log.selected = 2

C20_Witness ==
    /\ learner_log.selected = 2
    /\ SumQUpdates >= 200
    /\ q_updates[1] > 0
    /\ q_updates[2] > 0
    /\ q_updates[3] = 0
    /\ q_table["s"][1] < q_table["s"][3]
    /\ q_table["s"][3] < q_table["s"][2]

(***************************************************************************)
(* The reward of a verified forecast.  SpecReward calls calculate_reward   *)
(* with every outcome and every confidence of 0, 0.01, ... 1.5;            *)
(* learner_log.reward is the call and what it returned.                    *)
(***************************************************************************)
MutCalculateRewardUnsigned(is_correct, confidence_score) ==
    RAdd(Rat(1, 1), confidence_score)

\* calculate_reward: 1.0 + confidence_score, or -1.0 - confidence_score
CalculateReward(is_correct, confidence_score) ==
    IF is_correct
    THEN RAdd(Rat(1, 1), confidence_score)
    ELSE RSub(Rat(-1, 1), confidence_score)

calculate_reward ==
    \E is_correct \in BOOLEAN, hundredths \in 0..150 :
        /\ learner_log' = [learner_log EXCEPT !.reward =
                [ is_correct |-> is_correct,
                  confidence_score |-> Rat(hundredths, 100),
                  reward |-> CalculateReward(is_correct, Rat(hundredths, 100)) ]]
        /\ UNCHANGED << save_ghosts, q_table, model_file, learner_pc, q_updates, learner_params,
                        predictor_vars, switcher_vars, db_vars, perf_store,
                        save_due, poll_pc, forecast_ghosts, last_recorded,
                        record_ghosts >>

SpecReward == Init /\ [][calculate_reward]_vars

\* C21: the reward is 1 + confidence for a correct forecast and
\* -(1 + confidence) for a wrong one, so it is positive exactly when the
\* forecast was correct; (True, 0.8) gives 1.8 and (False, 0.3) gives -1.3.
C21_RewardSignFollowsOutcome ==
    learner_log.reward # <<>> =>
        LET call == learner_log.reward
            magnitude == RAdd(Rat(1, 1), call.confidence_score)
        IN  /\ call.is_correct => call.reward = magnitude
            /\ ~call.is_correct => call.reward = RNeg(magnitude)
            /\ RLess(Rat(0, 1), call.reward) <=> call.is_correct
            /\ (call.is_correct /\ call.confidence_score = Rat(8, 10))
                    => call.reward = Rat(18, 10)
            /\ (~call.is_correct /\ call.confidence_score = Rat(3, 10))
                    => call.reward = Rat(-13, 10)

C21_Witness ==
    /\ learner_log.reward # <<>>
    /\ ~learner_log.reward.is_correct
    /\ learner_log.reward.confidence_score = Rat(3, 10)
    /\ learner_log.reward.reward = Rat(-13, 10)

(***************************************************************************)
(* The pipeline over several periods.  SpecPipeline runs the polling cycle *)
(* for MaxPeriods lottery records, the periodic verification job           *)
(* (bot.py: verify_prediction(context) every 600 s, which verifies the     *)
(* latest lottery record again) and forecast requests for kill_group, in   *)
(* any interleaving; the forecasting function does not fail here.          *)
(***************************************************************************)
PipelineForecast ==
    \E predict_ok \in {TRUE}, draw_below \in BOOLEAN :
        LET c      == "kill_group"
            next   == latest_qihao + 1
            cached == prediction_cache[c][next]
        IN  IF cached # NoRow
            THEN ForecastCached(c, next, cached)
            ELSE /\ switch_counters[c] <= MaxPeriods
                 /\ CalculatePrediction(c, next, predict_ok, draw_below)

PipelineNewRecord ==
    /\ poll_pc = "idle"
    /\ latest_qihao < MaxPeriods
    /\ \E outcome \in Outcomes :
          /\ latest_qihao' = latest_qihao + 1
          /\ latest_outcome' = outcome
    /\ poll_pc' = "verify"
    /\ UNCHANGED << save_ghosts, learner_vars, predictor_vars, switcher_vars,
                    predictions, prediction_cache, perf_store, save_due,
                    forecast_ghosts, last_recorded, record_ghosts >>

\* async_verify_prediction: verify_prediction(context) takes the latest
\* lottery record from the store and runs the same loop
PeriodicVerify ==
    /\ latest_qihao >= 1
    /\ latest_qihao <= MaxPeriodicVerifies
    /\ \A c \in Categories :
          last_recorded[c].qihao = latest_qihao
              => last_recorded[c].times <= MaxPeriodicVerifies
    /\ LET before == [ st |-> [ perf |-> algorithm_performance,
                                trends |-> algorithm_trends,
                                store |-> perf_store, due |-> save_due ],
                       table |-> predictions,
                       recorded |-> last_recorded ]
           after == VerifyLoop(before, current_algorithms, CategoryOrder,
                               latest_qihao, latest_outcome)
       IN  /\ algorithm_performance' = after.st.perf
           /\ algorithm_trends' = after.st.trends
           /\ perf_store' = after.st.store
           /\ save_due' = after.st.due
           /\ predictions' = after.table
           /\ last_recorded' = after.recorded
    /\ UNCHANGED << save_ghosts, learner_vars, current_algorithms,
                    last_used_algorithms, switch_counters,
                    algorithm_switch_history, forced_exploration_done,
                    force_exploration, latest_qihao, latest_outcome,
                    prediction_cache, poll_pc, forecast_ghosts, record_ghosts >>

NextPipeline ==
    \/ PipelineForecast
    \/ PipelineNewRecord
    \/ PollVerify
    \/ PollAutoRun
    \/ PeriodicVerify

\* the saved performance data holds 5 outcomes of algorithm 1, the last 3 of
\* them wrong
InitPipeline ==
    /\ Init
    /\ algorithm_performance["kill_group"][1].total_predictions
            = MinPredictionsBeforeSwitch

SpecPipeline == InitPipeline /\ [][NextPipeline]_vars

\* C22: when the algorithm in force of kill_group has produced the forecasts
\* of the last 5 or more verified periods and those of the last 3 or more
\* were judged wrong, the next uncached forecast of kill_group is produced by
\* a different algorithm.
C22_ThreeWrongPeriodsSwitch ==
    [][ LET c   == "kill_group"
            rec == last_recorded[c]
        IN  (/\ last_forecast'[c] # last_forecast[c]
             /\ ~last_forecast'[c].cache_hit
             /\ rec.qihao = latest_qihao
             /\ rec.producer = current_algorithms[c]
             /\ rec.by_producer >= MinPredictionsBeforeSwitch
             /\ rec.wrong_run >= MaxConsecutiveErrors)
                => last_forecast'[c].to_algo # rec.producer ]_vars

\* C23: an uncached forecast of kill_group for period p + 1 is computed only
\* when the outcome of the forecast for period p, if there is one, has been
\* recorded by verify_prediction.
C23_OutcomeRecordedBeforeNextForecast ==
    [][ LET c == "kill_group"
        IN  (/\ last_forecast'[c] # last_forecast[c]
             /\ ~last_forecast'[c].cache_hit
             /\ latest_qihao >= 1
             /\ predictions[c][latest_qihao] # NoRow)
                => /\ last_recorded[c].qihao = latest_qihao
                   /\ last_recorded[c].times >= 1 ]_vars

\* C24: the forecast of a (prediction type, period) is recorded into the
\* performance data at most once, however many times the polling cycle and
\* the periodic verification job verify the same latest outcome.
C24_ForecastRecordedAtMostOnce ==
    \A c \in Categories : last_recorded[c].times <= 1

(***************************************************************************)
(* The check counters of calculate_prediction.  SpecRearm starts, as       *)
(* SpecExplore does, where every type has been checked                     *)
(* ForcedExplorationResetChecks - MaxForecasts times; forecasts that fail  *)
(* leave the cache empty, so each further forecast of the period is        *)
(* another check.                                                          *)
(***************************************************************************)
\* send_prediction near the threshold: one check past it, and MaxForecasts
\* checks after a restart from 0
RearmForecast(c) ==
    \E predict_ok \in BOOLEAN :
        LET next   == latest_qihao + 1
            cached == prediction_cache[c][next]
        IN  IF cached # NoRow
            THEN ForecastCached(c, next, cached)
            ELSE /\ \/ switch_counters[c] < MaxForecasts
                    \/ /\ switch_counters[c] >= ForcedExplorationResetChecks - MaxForecasts
                       /\ switch_counters[c] <= ForcedExplorationResetChecks
                 /\ CalculatePrediction(c, next, predict_ok, FALSE)

SpecRearm ==
    /\ InitExplore
    /\ [][ \/ \E c \in {"kill_group", "big_small"} : RearmForecast(c)
           \/ \E drawn_algo \in {2, 3} :
                 /\ SumSwitchEvents < MaxSwitchEvents
                 /\ select_next_algorithm("single_double", drawn_algo, FALSE, 2)
         ]_vars

\* C31 as stated: the check counter of every prediction type stays in
\* 0..100.
C31_EveryCounterWithinThreshold ==
    \A c \in Categories : switch_counters[c] \in 0..ForcedExplorationResetChecks

\* C31 amended: a check of a type other than big_small that is the 100th
\* since the counter's restart clears the forced-exploration flag of every
\* type and restarts the counter from 0, any other check of such a type adds
\* 1 and leaves the flags alone, so these counters stay in 0..99; a check
\* of big_small always adds 1 and never touches the flags.
C31_SwitchingCountersRearm ==
    [][ \A c \in Categories :
            switch_counters'[c] # switch_counters[c]
                => IF c # "big_small"
                      /\ switch_counters[c] + 1 >= ForcedExplorationResetChecks
                   THEN /\ switch_counters'[c] = 0
                        /\ \A d \in Categories : ~forced_exploration_done'[d]
                   ELSE /\ switch_counters'[c] = switch_counters[c] + 1
                        /\ forced_exploration_done' = forced_exploration_done
                        /\ c # "big_small"
                               => switch_counters'[c] < ForcedExplorationResetChecks
      ]_vars

\* the 100th check of kill_group has cleared the flag that a forced
\* exploration of single_double had set
C31_Witness ==
    /\ switch_counters["kill_group"] = 0
    /\ last_forecast["kill_group"] # NoForecast
    /\ last_decision # NoDecision
    /\ last_decision.pred_type = "single_double"
    /\ last_decision.forced
    /\ ~forced_exploration_done["single_double"]

(***************************************************************************)
(* ReinforcementLearner.adapt_parameters.  The rates are fixed-point       *)
(* numbers of QScale units; a product is rounded down to a unit.           *)
(* success_rate is in hundredths.                                          *)
(***************************************************************************)
MutAdaptNoUpperClamp(params, success_rate, iteration_count) ==
    [ params EXCEPT
        !.exploration_rate = (5 * QScale) \div (10 + iteration_count),
        !.learning_rate =
            IF success_rate > 70 THEN (@ * 95) \div 100
            ELSE IF success_rate < 40 THEN (@ * 105) \div 100
            ELSE @ ]

\* the parameters after adapt_parameters(success_rate, iteration_count);
\* 0.5 / (1 + 0.1 * iteration_count) = 5 / (10 + iteration_count)
AdaptParameters(params, success_rate, iteration_count) ==
    LET Max(x, y) == IF x >= y THEN x ELSE y
        Min(x, y) == IF x <= y THEN x ELSE y
        decayed   == (5 * QScale) \div (10 + iteration_count)
    IN  [ params EXCEPT
            !.exploration_rate =
                Max(QScale \div 20, Min((3 * QScale) \div 10, decayed)),
            !.learning_rate =
                IF success_rate > 70
                THEN Max(QScale \div 100, (@ * 95) \div 100)
                ELSE IF success_rate < 40
                     THEN Min(QScale \div 5, (@ * 105) \div 100)
                     ELSE @ ]

\* adapt_parameters(success_rate, iteration_count) with success rates on
\* both sides of 0.4 and 0.7 and iteration counts giving an exploration rate
\* above 0.3, between the bounds and below 0.05
adapt_parameters ==
    \E success_rate \in {39, 40, 70, 71}, iteration_count \in {0, 7, 500} :
        /\ learner_params' =
              AdaptParameters(learner_params, success_rate, iteration_count)
        /\ UNCHANGED << save_ghosts, q_table, model_file, learner_pc, q_updates,
                        learner_log, predictor_vars, switcher_vars, db_vars, perf_store,
                        save_due, poll_pc, forecast_ghosts, last_recorded,
                        record_ghosts >>

SpecAdapt == Init /\ [][adapt_parameters]_vars

\* C34: after any sequence of adapt_parameters calls from the initial
\* parameters, learning_rate is in [0.01, 0.2], exploration_rate is in
\* [0.05, 0.3] and discount_factor is 0.95.
C34_ParametersStayInRange ==
    /\ QScale <= 100 * learner_params.learning_rate
    /\ 5 * learner_params.learning_rate <= QScale
    /\ QScale <= 20 * learner_params.exploration_rate
    /\ 10 * learner_params.exploration_rate <= 3 * QScale
    /\ 100 * learner_params.discount_factor = DiscountPercent * QScale

\* the learning rate has been driven to its upper bound and the exploration
\* rate to its lower bound by the last call
C34_Witness ==
    /\ 5 * learner_params.learning_rate = QScale
    /\ 20 * learner_params.exploration_rate = QScale

(***************************************************************************)
(* AlgorithmSwitcher._analyze_performance_trend called directly on the     *)
(* trend series that update_algorithm_performance leaves after a stream of *)
(* outcomes fed to each algorithm since the start of the process.          *)
(***************************************************************************)
InitTrend ==
    /\ InitMemory
    /\ InitStore
    /\ current_algorithms = [c \in Categories |-> 1]
    /\ \E pick \in [Algorithms -> { <<>>,
                                    <<1, 1, 0, 0>>,
                                    <<0, 1, 1, 1, 1, 0, 1, 1>>,
                                    <<1, 1, 1, 1, 1, 1, 0, 0>>,
                                    <<1, 0, 1, 1, 0, 1, 1, 0, 1, 1, 1>> }] :
          /\ algorithm_performance =
                [c \in Categories |-> [a \in Algorithms |-> PerfAfter(DefaultPerf, pick[a])]]
          /\ algorithm_trends =
                [c \in Categories |->
                   [a \in Algorithms |-> TrendAfter(DefaultPerf, <<>>, pick[a])]]
    /\ perf_store = SnapshotAll(current_algorithms, algorithm_performance)
    /\ rec_target = <<"single_double", 1>>

\* _analyze_performance_trend(pred_type, algo_num)
analyze_performance_trend(pred_type, algo_num) ==
    LET trends == algorithm_trends[pred_type][algo_num]
        result == AnalyzePerformanceTrend(trends)
    IN  /\ last_decision' =
              [ pred_type |-> pred_type, algo |-> algo_num, trends |-> trends,
                is_declining |-> result.is_declining,
                trend_value |-> result.trend_value ]
        /\ UNCHANGED << save_ghosts, learner_vars, predictor_vars, switcher_vars,
                        db_vars, perf_store, save_due, poll_pc, forecast_ghosts,
                        last_recorded, fed, rec_target >>

SpecTrend ==
    /\ InitTrend
    /\ [][ \E pred_type \in Categories, algo_num \in Algorithms :
               analyze_performance_trend(pred_type, algo_num) ]_vars

\* C35: _analyze_performance_trend returns is_declining = false and slope 0
\* for a series of fewer than 5 values; otherwise the slope returned is the
\* ordinary least-squares slope of the last 5 values y against x = 0..4,
\* sum((x - 2) * (y - mean(y))) / sum((x - 2) ^ 2)
\* = (-2 y0 - y1 + y3 + 2 y4) / 10, and is_declining holds exactly when that
\* slope is below -0.01.
C35_SlopeIsLeastSquares ==
    last_decision # NoDecision
        => LET t == last_decision.trends
               n == Len(t)
               ols == RDiv(RAdd(RAdd(RMul(Rat(-2, 1), t[n - 4]), RNeg(t[n - 3])),
                                RAdd(t[n - 1], RMul(Rat(2, 1), t[n]))),
                           Rat(10, 1))
               value == last_decision.trend_value
           IN  IF n < TrendWindow
               THEN /\ ~last_decision.is_declining
                    /\ ~RLess(value, Rat(0, 1)) /\ ~RLess(Rat(0, 1), value)
               ELSE /\ ~RLess(value, ols) /\ ~RLess(ols, value)
                    /\ last_decision.is_declining <=> RLess(ols, Rat(-1, 100))

\* C36: after every update_algorithm_performance call the last value of the
\* trend series of the (prediction type, algorithm) fed is the
\* confidence_score that the call has just computed for that record.
C36_TrendHoldsConfidence ==
    fed # <<>>
        => LET trend == algorithm_trends[rec_target[1]][rec_target[2]]
               last  == trend[Len(trend)]
           IN  /\ trend # <<>>
               /\ ~RLess(last, TargetPerf.confidence_score)
               /\ ~RLess(TargetPerf.confidence_score, last)

(***************************************************************************)
(* The judges of a stored forecast.  save_lottery_record runs              *)
(* update_prediction_correctness on the forecasts of the period of a new   *)
(* record, verify_prediction judges them again afterwards; both write the  *)
(* is_correct column of the row.  A double_group label is                  *)
(* "t1/t2:[n1,n2]" (DoubleGroupAlgorithm.predict_double_group): combos are *)
(* the tokens of split(':')[0].split('/'), numbers the special numbers of  *)
(* the bracket; a kill_group label is "杀" and the excluded combination.   *)
(* The outcome of a draw follows from its sum: big from 14, odd when odd.  *)
(***************************************************************************)
\* the is_correct that update_prediction_correctness computes
UpdatePredictionCorrectness(pred_type, label, total_sum, outcome) ==
    CASE pred_type = "kill_group" ->
            LET kill_target == IF Len(label.combos) > 1 THEN Tail(label.combos) ELSE <<>>
            IN  kill_target # <<ActualCombination(outcome)>>
      [] pred_type = "double_group" ->
            LET is_combo_correct ==
                    \E i \in 1..Len(label.combos) :
                        label.combos[i] = ActualCombination(outcome)
                is_number_correct ==
                    \E i \in 1..Len(label.numbers) : label.numbers[i] = total_sum
            IN  is_combo_correct \/ is_number_correct

\* one judge applied to the stored forecast of a period whose draw has sum
\* total_sum; by_update: update_prediction_correctness, else verify_prediction
JudgeForecast(pred_type, label, total_sum, by_update) ==
    LET outcome == [is_big |-> total_sum >= 14, is_odd |-> total_sum % 2 = 1]
    IN  /\ last_decision' =
              [ pred_type |-> pred_type, label |-> label, total_sum |-> total_sum,
                by_update |-> by_update, actual |-> ActualCombination(outcome),
                is_correct |->
                    IF by_update
                    THEN UpdatePredictionCorrectness(pred_type, label, total_sum, outcome)
                    ELSE IsCorrect(pred_type, label.combos, outcome) ]
        /\ UNCHANGED << save_ghosts, learner_vars, predictor_vars, switcher_vars,
                        db_vars, perf_store, save_due, poll_pc, forecast_ghosts,
                        last_recorded, fed, rec_target >>

SpecJudge ==
    /\ Init
    /\ [][ \E total_sum \in {3, 12, 14, 15, 17, 26}, by_update \in BOOLEAN :
               \/ \E t \in {"da_dan", "da_shuang", "xiao_dan", "xiao_shuang"} :
                     JudgeForecast("kill_group",
                                   [combos |-> <<"sha", t>>, numbers |-> <<>>],
                                   total_sum, by_update)
               \/ \E label \in
                        { [combos |-> <<"xiao_dan", "xiao_shuang">>, numbers |-> <<1, 15>>],
                          [combos |-> <<"da_dan", "da_shuang">>, numbers |-> <<3, 17>>],
                          [combos |-> <<"da_shuang", "xiao_dan">>, numbers |-> <<3, 14>>] } :
                     JudgeForecast("double_group", label, total_sum, by_update)
         ]_vars

\* C37: the is_correct computed for a kill_group forecast is true exactly
\* when the excluded combination differs from the actual combination of the
\* draw, and the one computed for a double_group forecast is true exactly
\* when the actual combination is one of the combinations it lists, by
\* verify_prediction and by update_prediction_correctness alike.
C37_ExactMembershipOrNegation ==
    last_decision # NoDecision
        => LET combos == last_decision.label.combos
           IN  IF last_decision.pred_type = "kill_group"
               THEN last_decision.is_correct <=> combos[2] # last_decision.actual
               ELSE last_decision.is_correct
                        <=> \E i \in 1..Len(combos) : combos[i] = last_decision.actual

\* C38: after any sequence of update_algorithm_performance calls from the
\* default records, the record fed has total_predictions = the number of
\* calls, correct_predictions = the number of correct ones (at most
\* total_predictions), success_rate = correct_predictions / total_predictions
\* and recent_success_rate = the mean of recent_results; a record that no
\* call fed counts 0 predictions.
C38_CountersAndRatesFollowStream ==
    /\ \A c \in Categories, a \in Algorithms :
          <<c, a>> # rec_target
              => /\ algorithm_performance[c][a].total_predictions = 0
                 /\ algorithm_performance[c][a].correct_predictions = 0
    /\ TargetPerf.total_predictions = Len(fed)
    /\ TargetPerf.correct_predictions = SumSeq(fed)
    /\ TargetPerf.correct_predictions <= TargetPerf.total_predictions
    /\ fed # <<>>
          => /\ TargetPerf.success_rate[1] * TargetPerf.total_predictions
                    = TargetPerf.correct_predictions * TargetPerf.success_rate[2]
             /\ TargetPerf.recent_success_rate[1] * Len(TargetPerf.recent_results)
                    = SumSeq(TargetPerf.recent_results) * TargetPerf.recent_success_rate[2]

\* more outcomes than the window holds were fed, and the lifetime rate and
\* the windowed rate differ
C38_Witness ==
    /\ Len(fed) > MaxRecentResults
    /\ SumSeq(fed) < Len(fed)
    /\ TargetPerf.success_rate # TargetPerf.recent_success_rate
    /\ Len(TargetPerf.recent_results) = MaxRecentResults

(***************************************************************************)
(* The switch history at its limit.  SpecHistory starts where              *)
(* select_next_algorithm has recorded SwitchHistoryLimit - 1 events of     *)
(* kill_group, the i-th after 2 + i consecutive wrong forecasts of         *)
(* algorithm 1, and calls it until MaxEvictions events have been evicted.  *)
(***************************************************************************)
\* events evicted from a history in one behaviour of SpecHistory
MaxEvictions == 2

InitHistory ==
    /\ last_used_algorithms = [c \in Categories |-> [q \in Qihaos |-> 0]]
    /\ switch_counters = [c \in Categories |-> 0]
    /\ algorithm_switch_history =
          [c \in Categories |->
             IF c = "kill_group"
             THEN [i \in 1..(SwitchHistoryLimit - 1) |->
                     [ from_algo |-> 1, to_algo |-> 2,
                       reason |-> Reason("consecutive_failures", 2 + i, NoValue) ]]
             ELSE <<>>]
    /\ forced_exploration_done = [c \in Categories |-> c = "kill_group"]
    /\ force_exploration = FALSE
    /\ save_due = FALSE
    /\ last_forecast = [c \in Categories |-> NoForecast]
    /\ last_recorded = [c \in Categories |-> NoRecorded]
    /\ served = [c \in Categories |-> [q \in Qihaos |-> {}]]
    /\ recomputed = [c \in Categories |-> [q \in Qihaos |-> FALSE]]
    /\ fed = <<>>
    /\ last_decision = NoDecision
    /\ InitStore
    /\ algorithm_trends = NoTrends
    /\ \E cur \in Algorithms : current_algorithms = [c \in Categories |-> cur]
    /\ \E stream \in InitStreams :
          algorithm_performance =
              [c \in Categories |->
                 [a \in Algorithms |-> PerfAfter(DefaultPerf, stream)]]
    /\ perf_store = SnapshotAll(current_algorithms, algorithm_performance)
    /\ rec_target = <<"single_double", 1>>

SpecHistory ==
    /\ InitHistory
    /\ [][ \E c \in {"kill_group", "double_group"}, drawn_algo \in {2, 3},
             draw_explore \in BOOLEAN :
               /\ c = "kill_group"
                     => algorithm_switch_history[c][1].reason.count <= 2 + MaxEvictions
               /\ c = "double_group"
                     => Len(algorithm_switch_history[c]) < MaxEvictions
               /\ select_next_algorithm(c, drawn_algo, draw_explore, 2) ]_vars

\* C39: the switch history of a prediction type never holds more than 50
\* events; every select_next_algorithm call appends its event at the end of
\* the history of its prediction type and leaves the other histories alone,
\* and when the history held 50 events the oldest one is dropped and the
\* other 49 stay in their order before the new event.
C39_HistoryBoundedOldestEvicted ==
    [][ LET c   == last_decision'.pred_type
            old == algorithm_switch_history[c]
            new == algorithm_switch_history'[c]
        IN  /\ \A d \in Categories :
                  /\ Len(algorithm_switch_history'[d]) <= SwitchHistoryLimit
                  /\ d # c => algorithm_switch_history'[d] = algorithm_switch_history[d]
            /\ Len(new) >= 1
            /\ new[Len(new)].from_algo = last_decision'.current
            /\ new[Len(new)].reason = last_decision'.reason
            /\ IF Len(old) = SwitchHistoryLimit
               THEN /\ Len(new) = SwitchHistoryLimit
                    /\ \A i \in 1..(SwitchHistoryLimit - 1) : new[i] = old[i + 1]
               ELSE /\ Len(new) = Len(old) + 1
                    /\ \A i \in 1..Len(old) : new[i] = old[i]
      ]_vars

\* two events have been evicted from the full history of kill_group
C39_Witness ==
    /\ Len(algorithm_switch_history["kill_group"]) = SwitchHistoryLimit
    /\ algorithm_switch_history["kill_group"][1].reason.count = 5
    /\ last_decision # NoDecision
    /\ last_decision.pred_type = "kill_group"
    /\ algorithm_switch_history["kill_group"][SwitchHistoryLimit].reason
            = last_decision.reason

====
